---- MODULE Spec2Model ----
(***************************************************************************)
(* Model of rymparser's post-download reconciliation:                      *)
(*   slskd_client._completed_directories, organizer._organize_album and    *)
(*   organizer.wait_and_organize, with the helpers they call.              *)
(*                                                                         *)
(* Python strings are sequences of one-character strings, so that          *)
(* str.replace, PurePosixPath(...).name, re.match and iteration over a     *)
(* str are computed the way the code computes them.                        *)
(***************************************************************************)
EXTENDS Integers, Sequences, FiniteSets, TLC

(***************************************************************************)
(* Bounds of the model.                                                    *)
(***************************************************************************)
MaxPathLen == 3     \* longest raw remote path drawn for normalization
MaxCalls == 2       \* calls of _organize_album on one input
MaxSlots == 3       \* directories the Transfer Service may list in one call
MaxAlts == 2        \* alternatives stored for one album
Timeout == 2        \* the timeout argument, in loop iterations' worth of time
MaxRanked == 3      \* candidates handed to rank_results for one album
MaxFiles == 3       \* files of one search response
MaxFound == 5       \* candidates the filter leaves for one album
MaxNameLen == 3     \* longest artist name or title drawn for a label

(***************************************************************************)
(* Strings.                                                                *)
(***************************************************************************)
BS == "\\"
SP == " "

\* str.replace("\\", "/")
ReplaceBackslash(s) == [i \in 1..Len(s) |-> IF s[i] = BS THEN "/" ELSE s[i]]

\* x in s, for two str values: s has x as a substring
StrContains(s, x) ==
    \E i \in 0..(Len(s) - Len(x)) : SubSeq(s, i + 1, i + Len(x)) = x

\* str.strip(): drop leading and trailing whitespace
Strip(s) ==
    LET idx == {i \in 1..Len(s) : s[i] # SP}
    IN  IF idx = {} THEN <<>>
        ELSE LET lo == CHOOSE i \in idx : \A j \in idx : i <= j
                 hi == CHOOSE i \in idx : \A j \in idx : i >= j
             IN  SubSeq(s, lo, hi)

\* the pieces of s between "/" separators (str.split("/"))
RECURSIVE SplitSlash(_)
SplitSlash(s) ==
    LET cut == {i \in 1..Len(s) : s[i] = "/"}
    IN  IF cut = {} THEN <<s>>
        ELSE LET c == CHOOSE i \in cut : \A j \in cut : i <= j
             IN  <<SubSeq(s, 1, c - 1)>> \o SplitSlash(SubSeq(s, c + 1, Len(s)))

\* PurePosixPath(s).parts without the anchor: empty and "." pieces are dropped
PathParts(s) == SelectSeq(SplitSlash(s), LAMBDA p : p # <<>> /\ p # <<".">>)

\* PurePosixPath(s).name: the last part, "" when there is none
PosixName(s) ==
    LET parts == PathParts(s)
    IN  IF parts = <<>> THEN <<>> ELSE parts[Len(parts)]

(***************************************************************************)
(* organizer.py helpers.                                                   *)
(***************************************************************************)
normalize_path_dropping_rest(directory) ==
    IF \E i \in 1..Len(directory) : directory[i] = BS
    THEN LET c == CHOOSE i \in 1..Len(directory) :
                     directory[i] = BS /\ \A j \in 1..(i - 1) : directory[j] # BS
         IN  [i \in 1..Len(directory) |-> IF i = c THEN "/" ELSE directory[i]]
    ELSE directory

normalize_path(directory) == ReplaceBackslash(directory)

source_dir_name(directory) == PosixName(ReplaceBackslash(directory))

(***************************************************************************)
(* models.py: Album and Album.from_line.                                   *)
(***************************************************************************)
Digits == {"0", "1", "2", "3", "4", "5", "6", "7", "8", "9"}

\* number of consecutive whitespace characters of s after position i
SpacesAfter(s, i) ==
    LET stop == {k \in (i + 1)..(Len(s) + 1) : k = Len(s) + 1 \/ s[k] # SP}
    IN  (CHOOSE k \in stop : \A m \in stop : k <= m) - (i + 1)

\* s after position j matches  \s*$
TailPlain(s, j) == \A k \in (j + 1)..Len(s) : s[k] = SP

\* s after position j matches  \s*\((\d{4})\)\s*$
TailYear(s, j) ==
    LET o == j + SpacesAfter(s, j) + 1
    IN  /\ o + 5 <= Len(s)
        /\ s[o] = "("
        /\ \A k \in (o + 1)..(o + 4) : s[k] \in Digits
        /\ s[o + 5] = ")"
        /\ TailPlain(s, o + 5)

YearAt(s, j) ==
    LET o == j + SpacesAfter(s, j) + 1 IN SubSeq(s, o + 1, o + 4)

\* group 1 may end at i: what follows is  \s*-\s*(.+?)(?:\s*\((\d{4})\))?\s*$
ArtistEndsAt(s, i) ==
    LET d == i + SpacesAfter(s, i) + 1
    IN  d < Len(s) /\ s[d] = "-"

LineMatches(line) == \E i \in 1..Len(line) : ArtistEndsAt(line, i)

Min(S) == CHOOSE x \in S : \A y \in S : x <= y

\* the groups of the match, group 1 ending at i and group 2 being line[p..j]
MatchGroups(line, i, p, j) ==
    [artist |-> Strip(SubSeq(line, 1, i)),
     title  |-> Strip(SubSeq(line, p, j)),
     year   |-> IF TailYear(line, j) THEN YearAt(line, j) ELSE <<>>]

\* the lazy group 2 starts at p and stops at the first position the tail matches
MatchTitle(line, i, p) ==
    MatchGroups(line, i, p,
        Min({j \in p..Len(line) : TailYear(line, j) \/ TailPlain(line, j)}))

\* the greedy \s* after the dash at d gives a character back only when group 2
\* would otherwise be empty
TitleStart(line, d) ==
    IF d + SpacesAfter(line, d) + 1 <= Len(line)
    THEN d + SpacesAfter(line, d) + 1
    ELSE Len(line)

MatchArtist(line, i) ==
    MatchTitle(line, i, TitleStart(line, i + SpacesAfter(line, i) + 1))

\* Album.from_line: re.match(r"^(.+?)\s*-\s*(.+?)(?:\s*\((\d{4})\))?\s*$", line);
\* the lazy group 1 takes the shortest prefix that lets the rest match
from_line(line) ==
    MatchArtist(line, Min({i \in 1..Len(line) : ArtistEndsAt(line, i)}))

(***************************************************************************)
(* The filesystem below downloads_dir: the directories that exist, as      *)
(* paths relative to downloads_dir (<<>> is downloads_dir itself), each    *)
(* with the files it holds.                                                *)
(***************************************************************************)
PathExists(f, p) == p \in DOMAIN f

IsPrefix(p, q) == Len(p) <= Len(q) /\ SubSeq(q, 1, Len(p)) = p

\* downloads_dir / name
JoinRoot(name) == PathParts(name)

\* f"{album.title} ({album.year})" if album.year else album.title
FolderName(album) ==
    IF album.year # <<>>
    THEN album.title \o <<SP, "(">> \o album.year \o <<")">>
    ELSE album.title

album_target_dir(album) == PathParts(album.artist) \o PathParts(FolderName(album))

\* Path.mkdir(parents=True, exist_ok=True)
MkdirParents(f, p) ==
    LET new == {SubSeq(p, 1, k) : k \in 0..Len(p)} \ DOMAIN f
    IN  [q \in DOMAIN f \cup new |-> IF q \in DOMAIN f THEN f[q] ELSE "empty"]

\* the tree after os.rename(src, dst)
RenameTree(f, src, dst) ==
    LET under == {q \in DOMAIN f : IsPrefix(src, q)}
        keep == DOMAIN f \ under
        Moved(q) == dst \o SubSeq(q, Len(src) + 1, Len(q))
        OldOf(r) == CHOOSE q \in under : Moved(q) = r
    IN  [r \in keep \cup {Moved(q) : q \in under} |->
            IF r \in keep THEN f[r] ELSE f[OldOf(r)]]

\* shutil.move(src, dst) for a dst that does not exist: os.rename, which fails
\* with OSError when dst lies inside src (shutil.Error "Cannot move a directory
\* into itself") or when the operating system refuses (oserr)
shutil_move(f, src, dst, oserr) ==
    IF oserr \/ IsPrefix(src, dst)
    THEN [raised |-> TRUE, fs |-> f]
    ELSE [raised |-> FALSE, fs |-> RenameTree(f, src, dst)]

(***************************************************************************)
(* The album labels and remote directories the checks draw from.           *)
(***************************************************************************)
\* "x - a (1999)" and "y-b"
LabelA == <<"x", SP, "-", SP, "a", SP, "(", "1", "9", "9", "9", ")">>
LabelB == <<"y", "-", "b">>
\* "a - b": the artist is the name of the downloaded folder "a"
LabelInside == <<"a", SP, "-", SP, "b">>
\* " - a": the artist is empty, the target is downloads_dir / "a"
LabelNoArtist == <<SP, "-", SP, "a">>
\* "xa": no dash, unparsable
LabelBad == <<"x", "a">>

Labels == {LabelA, LabelB, LabelInside, LabelNoArtist, LabelBad}

DirMA == <<"m", BS, "a">>
DirA == <<"a">>
DirMB == <<"m", "/", "b">>
DirMAslash == <<"m", "/", "a">>
DirB == <<"b">>

RemoteDirs == {DirMA, DirA, DirMB, DirMAslash, DirB}

K1 == [username |-> "u1", directory |-> DirMA, files |-> "f1"]
K2 == [username |-> "u2", directory |-> DirA, files |-> "f2"]
K3 == [username |-> "u1", directory |-> DirMB, files |-> "f3"]

\* the values the helpers give on these inputs, computed once
ParsedLabel ==
    [l \in Labels |-> IF LineMatches(l) THEN <<from_line(l)>> ELSE <<>>]

TargetOfLabel ==
    [l \in Labels |->
        IF LineMatches(l) THEN album_target_dir(from_line(l)) ELSE <<>>]

SourceOfDir == [d \in RemoteDirs |-> JoinRoot(source_dir_name(d))]

Parent(p) == SubSeq(p, 1, Len(p) - 1)

MoveOutcome(mv) == [ok |-> ~mv.raised, fs |-> mv.fs]

OrganizeTo_overwriting(source, target, f, oserr) ==
    IF source = target THEN [ok |-> TRUE, fs |-> f]
    ELSE MoveOutcome(shutil_move(MkdirParents(f, Parent(target)),
                                 source, target, oserr))

OrganizeTo_copying(source, target, f, oserr) ==
    IF source = target THEN [ok |-> TRUE, fs |-> f]
    ELSE IF PathExists(f, target) THEN [ok |-> FALSE, fs |-> f]
    ELSE [ok |-> ~(oserr \/ IsPrefix(source, target)),
          fs |-> MkdirParents(f, target)]

\* lines 144-173 of _organize_album, source and target being known
OrganizeTo(source, target, f, oserr) ==
    IF source = target THEN [ok |-> TRUE, fs |-> f]
    ELSE IF PathExists(f, target) THEN [ok |-> FALSE, fs |-> f]
    ELSE MoveOutcome(shutil_move(MkdirParents(f, Parent(target)),
                                 source, target, oserr))

OrganizeFrom_unparsed_label_ok(album_str, source, f, oserr) ==
    IF ~PathExists(f, source) THEN [ok |-> FALSE, fs |-> f]
    ELSE IF ParsedLabel[album_str] = <<>>
         THEN [ok |-> TRUE, fs |-> MkdirParents(f, PathParts(album_str))]
    ELSE OrganizeTo(source, TargetOfLabel[album_str], f, oserr)

OrganizeFrom_missing_source_ok(album_str, source, f, oserr) ==
    IF ~PathExists(f, source) THEN [ok |-> TRUE, fs |-> f]
    ELSE IF ParsedLabel[album_str] = <<>> THEN [ok |-> FALSE, fs |-> f]
    ELSE OrganizeTo(source, TargetOfLabel[album_str], f, oserr)

\* lines 125-142 of _organize_album, source being known
OrganizeFrom(album_str, source, f, oserr) ==
    IF ~PathExists(f, source) THEN [ok |-> FALSE, fs |-> f]
    ELSE IF ParsedLabel[album_str] = <<>> THEN [ok |-> FALSE, fs |-> f]
    ELSE OrganizeTo(source, TargetOfLabel[album_str], f, oserr)

\* _organize_album(album_str, remote_dir, downloads_dir) on the tree f
organize_album(album_str, remote_dir, f, oserr) ==
    OrganizeFrom(album_str, SourceOfDir[remote_dir], f, oserr)

(***************************************************************************)
(* slskd_client.py: _completed_directories.                                *)
(***************************************************************************)
Succeeded == "Completed, Succeeded"
Cancelled == "Completed, Cancelled"
TimedOut == "Completed, TimedOut"
Errored == "Completed, Errored"
Rejected == "Completed, Rejected"
InProgress == "InProgress"

FileStates == {InProgress, Succeeded, Cancelled, TimedOut, Errored, Rejected}

COMPLETED_STATES == {Succeeded, Cancelled, TimedOut, Errored}

AllDone(files) == \A i \in 1..Len(files) : files[i] \in COMPLETED_STATES

DirRecords(t) == {t.directories[j] : j \in 1..Len(t.directories)}

\* raw_dir.replace("\\", "/") of the completed directory
CompletedKey(raw_dir) == ReplaceBackslash(raw_dir)

completed_directories_any_peer(transfers, usernames) ==
    LET watched == {transfers[i] : i \in 1..Len(transfers)}
    IN  {CompletedKey(d.directory) :
            d \in UNION {{d \in DirRecords(t) : d.files # <<>> /\ AllDone(d.files)} :
                            t \in watched}}

completed_directories_with_empty(transfers, usernames) ==
    LET watched == {transfers[i] : i \in
                       {i \in 1..Len(transfers) : transfers[i].username \in usernames}}
    IN  {CompletedKey(d.directory) :
            d \in UNION {{d \in DirRecords(t) : AllDone(d.files)} : t \in watched}}

\* the set _completed_directories returns
completed_directories(transfers, usernames) ==
    LET watched == {transfers[i] : i \in
                       {i \in 1..Len(transfers) : transfers[i].username \in usernames}}
    IN  {CompletedKey(d.directory) :
            d \in UNION {{d \in DirRecords(t) : d.files # <<>> /\ AllDone(d.files)} :
                            t \in watched}}

\* "newly_done, newly_failed = _completed_directories(...)": the returned set is
\* unpacked into two names. A set that does not hold exactly two paths raises
\* ValueError; one that does binds each name to one path (a str), in the
\* iteration order of the set, which depends on the hash seed of the process.
UnpackPair(completed) ==
    IF Cardinality(completed) = 2
    THEN {[raised |-> FALSE, done |-> x, failed |-> y] :
            <<x, y>> \in {<<x, y>> \in completed \X completed : x # y}}
    ELSE {[raised |-> TRUE, done |-> <<>>, failed |-> <<>>]}

(***************************************************************************)
(* What the Transfer Service lists: for each slot (a peer and one of its   *)
(* remote directories) either nothing or the states of its files.          *)
(***************************************************************************)
NotListed == <<"-">>

FileLists ==
    {<<>>} \cup {<<s>> : s \in FileStates} \cup {<<Succeeded, s>> : s \in FileStates}

SlotList ==
    << [username |-> "u1", directory |-> <<"m", BS, "a">>],
       [username |-> "u2", directory |-> <<"a">>],
       [username |-> "u1", directory |-> <<"m", "/", "b">>],
       [username |-> "u2", directory |-> <<"m", "/", "a">>],
       [username |-> "u3", directory |-> <<"b">>] >>

PeerSeq == <<"u1", "u2", "u3">>

NumSlots == IF MaxSlots < Len(SlotList) THEN MaxSlots ELSE Len(SlotList)

Listings == [1..NumSlots -> FileLists \cup {NotListed}]

DirectoriesOf(listing, peer) ==
    LET idx == SelectSeq([i \in 1..NumSlots |-> i],
                         LAMBDA i : SlotList[i].username = peer
                                    /\ listing[i] # NotListed)
    IN  [k \in 1..Len(idx) |->
            [directory |-> SlotList[idx[k]].directory, files |-> listing[idx[k]]]]

\* the list client.transfers.get_all_downloads() returns
TransfersOf(listing) ==
    SelectSeq([p \in 1..Len(PeerSeq) |->
                  [username |-> PeerSeq[p],
                   directories |-> DirectoriesOf(listing, PeerSeq[p])]],
              LAMBDA t : t.directories # <<>>)

(***************************************************************************)
(* organizer.py: _build_dir_to_album_map.  results is the dict in          *)
(* insertion order: a sequence of [label, data], data being null, the      *)
(* legacy flat shape, or the shape with alternatives.                      *)
(***************************************************************************)
Null == [kind |-> "null"]

Flat(c) == [kind |-> "flat", username |-> c.username,
            directory |-> c.directory, files |-> c.files]

Alts(sel, alternatives) ==
    [kind |-> "alts", selected |-> sel, alternatives |-> alternatives]

MapPut(m, k, v) == [x \in DOMAIN m \cup {k} |-> IF x = k THEN v ELSE m[x]]

EmptyMap == [x \in {} |-> <<>>]

ActiveRemoteDir_ignoring_legacy(data) ==
    IF data.kind = "null" THEN <<>>
    ELSE IF data.kind = "alts"
         THEN IF data.selected < Len(data.alternatives)
              THEN data.alternatives[data.selected + 1].directory
              ELSE <<>>
         ELSE <<>>

\* the remote_dir the loop body of _build_dir_to_album_map finds ("" = skipped)
ActiveRemoteDir(data) ==
    IF data.kind = "null" THEN <<>>
    ELSE IF data.kind = "alts"
         THEN IF data.selected < Len(data.alternatives)
              THEN data.alternatives[data.selected + 1].directory
              ELSE <<>>
         ELSE data.directory

RECURSIVE BuildMapFrom(_, _, _)
BuildMapFrom(results, i, mapping) ==
    IF i > Len(results) THEN mapping
    ELSE LET remote_dir == ActiveRemoteDir(results[i].data)
         IN  IF remote_dir = <<>>
             THEN BuildMapFrom(results, i + 1, mapping)
             ELSE BuildMapFrom(results, i + 1,
                     MapPut(mapping, normalize_path(remote_dir),
                            <<results[i].label, remote_dir>>))

build_dir_to_album_map(results) == BuildMapFrom(results, 1, EmptyMap)

(***************************************************************************)
(* organizer.py: wait_and_organize.                                        *)
(***************************************************************************)
VARIABLES
    results,         \* the results argument
    fs,              \* the directories below downloads_dir
    usernames,       \* the usernames argument (a set the function adds to)
    dir_map, organized, moved, attempt_index, total_expected, null_count,
    now,             \* time.time()
    deadline,
    pc,              \* "start", "loop", "done" (returned) or "raised"
    ret,             \* the returned (moved, skipped), <<>> before the return
    enqueue_calls,   \* calls of enqueue_download so far
    organize_calls,  \* calls of _organize_album so far
    history          \* one entry per poll: what it was given and where it began

woVars == <<results, fs, usernames, dir_map, organized, moved, attempt_index,
            total_expected, null_count, now, deadline, pc, ret, enqueue_calls,
            organize_calls, history>>

\* results.get(album_str)
ResultsGet(res, album_str) ==
    LET hit == {i \in 1..Len(res) : res[i].label = album_str}
    IN  IF hit = {} THEN Null ELSE res[CHOOSE i \in hit : TRUE].data

\* attempt_index.get(album_str, 0)
AttemptGet(ai, album_str) == IF album_str \in DOMAIN ai THEN ai[album_str] ELSE 0

\* lines 247-250: attempt_index[album_str] = data.get("selected", 0)
RECURSIVE InitialAttemptIndex(_, _, _)
InitialAttemptIndex(res, i, ai) ==
    IF i > Len(res) THEN ai
    ELSE IF res[i].data.kind = "null" THEN InitialAttemptIndex(res, i + 1, ai)
    ELSE InitialAttemptIndex(res, i + 1,
            MapPut(ai, res[i].label,
                   IF res[i].data.kind = "alts" THEN res[i].data.selected ELSE 0))

NullCount_none(res) == 0

NullCount(res) == Cardinality({i \in 1..Len(res) : res[i].data.kind = "null"})

\* the mutable locals of the loop, threaded through its statements
Locals ==
    [dir_map |-> dir_map, organized |-> organized, moved |-> moved,
     attempt_index |-> attempt_index, total_expected |-> total_expected,
     usernames |-> usernames, fs |-> fs, enq |-> enqueue_calls,
     org |-> organize_calls]

\* lines 264-275: the body of "for dir_name in newly_done"
DoneBody_reprocessing(st, dir_name, oserr) ==
    IF dir_name \notin DOMAIN st.dir_map THEN st
    ELSE LET album_str == st.dir_map[dir_name][1]
             remote_dir == st.dir_map[dir_name][2]
             r == organize_album(album_str, remote_dir, st.fs, oserr)
         IN  [st EXCEPT !.moved = IF r.ok THEN @ + 1 ELSE @,
                        !.fs = r.fs,
                        !.organized = @ \cup {dir_name},
                        !.org = Append(@, [dir_name |-> dir_name,
                                           album_str |-> album_str,
                                           remote_dir |-> remote_dir,
                                           ok |-> r.ok])]

DoneBody(st, dir_name, oserr) ==
    IF dir_name \in st.organized THEN st
    ELSE IF dir_name \notin DOMAIN st.dir_map THEN st
    ELSE LET album_str == st.dir_map[dir_name][1]
             remote_dir == st.dir_map[dir_name][2]
             r == organize_album(album_str, remote_dir, st.fs, oserr)
         IN  [st EXCEPT !.moved = IF r.ok THEN @ + 1 ELSE @,
                        !.fs = r.fs,
                        !.organized = @ \cup {dir_name},
                        !.org = Append(@, [dir_name |-> dir_name,
                                           album_str |-> album_str,
                                           remote_dir |-> remote_dir,
                                           ok |-> r.ok])]

\* lines 295-337: the retry with alts[idx], entered when idx < len(alts)
RetryNext_keeping_failed_live(st, album_str, next_alt, idx, dir_name, enq_ok) ==
    LET st1 == [st EXCEPT
                  !.attempt_index = MapPut(@, album_str, idx),
                  !.enq = Append(@, [username |-> next_alt.username,
                                     files |-> next_alt.files,
                                     for_dir |-> dir_name,
                                     album_str |-> album_str,
                                     ok |-> enq_ok])]
    IN  IF ~enq_ok THEN [st1 EXCEPT !.organized = @ \cup {dir_name}]
        ELSE [st1 EXCEPT
                !.dir_map = MapPut(@, normalize_path(next_alt.directory),
                                   <<album_str, next_alt.directory>>),
                !.usernames = @ \cup {next_alt.username},
                !.total_expected = @ + 1]

RetryNext_jumping_to_last(st, album_str, next_alt, idx, dir_name, enq_ok) ==
    LET st1 == [st EXCEPT
                  !.attempt_index = MapPut(@, album_str, idx + 1),
                  !.enq = Append(@, [username |-> next_alt.username,
                                     files |-> next_alt.files,
                                     for_dir |-> dir_name,
                                     album_str |-> album_str,
                                     ok |-> enq_ok]),
                  !.organized = @ \cup {dir_name}]
    IN  IF ~enq_ok THEN st1
        ELSE [st1 EXCEPT
                !.dir_map = MapPut(@, normalize_path(next_alt.directory),
                                   <<album_str, next_alt.directory>>),
                !.usernames = @ \cup {next_alt.username},
                !.total_expected = @ + 1]

RetryNext(st, album_str, next_alt, idx, dir_name, enq_ok) ==
    LET st1 == [st EXCEPT
                  !.attempt_index = MapPut(@, album_str, idx),
                  !.enq = Append(@, [username |-> next_alt.username,
                                     files |-> next_alt.files,
                                     for_dir |-> dir_name,
                                     album_str |-> album_str,
                                     ok |-> enq_ok]),
                  !.organized = @ \cup {dir_name}]
    IN  IF ~enq_ok THEN st1
        ELSE [st1 EXCEPT
                !.dir_map = MapPut(@, normalize_path(next_alt.directory),
                                   <<album_str, next_alt.directory>>),
                !.usernames = @ \cup {next_alt.username},
                !.total_expected = @ + 1]

\* lines 278-337: the body of "for dir_name in newly_failed"
FailedBody(st, res, dir_name, enq_ok) ==
    IF dir_name \in st.organized THEN st
    ELSE IF dir_name \notin DOMAIN st.dir_map
    THEN [st EXCEPT !.organized = @ \cup {dir_name}]
    ELSE LET album_str == st.dir_map[dir_name][1]
             data == ResultsGet(res, album_str)
         IN  IF data.kind = "null"
             THEN [st EXCEPT !.organized = @ \cup {dir_name}]
             ELSE LET alts == IF data.kind = "alts" THEN data.alternatives ELSE <<>>
                      idx == AttemptGet(st.attempt_index, album_str) + 1
                  IN  IF idx < Len(alts)
                      THEN RetryNext(st, album_str, alts[idx + 1], idx,
                                     dir_name, enq_ok)
                      ELSE [st EXCEPT !.organized = @ \cup {dir_name}]

\* "for dir_name in newly_done" with newly_done a str: dir_name takes the
\* characters of the path, one after the other
RECURSIVE ForNewlyDone(_, _, _, _)
ForNewlyDone(st, newly_done, i, oserr) ==
    IF i > Len(newly_done) THEN st
    ELSE ForNewlyDone(DoneBody(st, <<newly_done[i]>>, oserr), newly_done, i + 1, oserr)

RECURSIVE ForNewlyFailed(_, _, _, _, _)
ForNewlyFailed(st, res, newly_failed, i, enq_ok) ==
    IF i > Len(newly_failed) THEN st
    ELSE ForNewlyFailed(FailedBody(st, res, <<newly_failed[i]>>, enq_ok),
                        res, newly_failed, i + 1, enq_ok)


(***************************************************************************)
(* Inputs of a wait_and_organize run.                                      *)
(***************************************************************************)
TargetA == <<(<<"x">>), (<<"a", SP, "(", "1", "9", "9", "9", ")">>)>>
TargetB == <<(<<"y">>), (<<"b">>)>>
FolderA == <<(<<"a">>)>>
FolderB == <<(<<"b">>)>>

\* alternative lists over K1 and K2 without repetition, at most MaxAlts long
AltLists ==
    {a \in UNION {[1..n -> {K1, K2}] : n \in 0..MaxAlts} :
        \A i, j \in 1..Len(a) : i # j => a[i] # a[j]}

OutcomesA ==
    {Null, Flat(K1), Flat(K2)}
        \cup {Alts(sel, a) : sel \in 0..1, a \in AltLists}

OutcomesB == {Null, Flat(K3), Alts(0, <<K3>>)}

ResultsUniverse ==
    {<<[label |-> LabelA, data |-> d]>> : d \in OutcomesA}
        \cup {<<[label |-> LabelA, data |-> d], [label |-> LabelB, data |-> e]>> :
                d \in OutcomesA, e \in OutcomesB}

\* a tree of downloads_dir: each directory holds the files named after the
\* path it was created at
TreeOf(dirs) == [q \in dirs \cup {<<>>} |-> q]

InitialTrees ==
    {TreeOf(D) : D \in {{}, {FolderA, FolderB},
                        {FolderA, FolderB, <<(<<"x">>)>>, TargetA}}}

InitialUsernames == {{"u1"}, {"u1", "u2"}}

PollFileLists ==
    {<<Succeeded>>, <<InProgress>>, <<Rejected>>}

\* what a poll is given: for wait_and_organize a directory that is not listed
\* and one that is still in progress are the same input (neither is
\* completed), so every directory is listed
PollListings == [1..NumSlots -> PollFileLists]

Skipped(st) == st.total_expected - st.moved + null_count

\* lines 241-255: everything before the loop
Start ==
    /\ pc = "start"
    /\ LET dm == build_dir_to_album_map(results)
       IN  /\ dir_map' = dm
           /\ total_expected' = Cardinality(DOMAIN dm)
           /\ null_count' = NullCount(results)
           /\ attempt_index' = InitialAttemptIndex(results, 1, EmptyMap)
           /\ IF Cardinality(DOMAIN dm) = 0
              THEN pc' = "done" /\ ret' = <<0, NullCount(results)>>
                   /\ deadline' = deadline
              ELSE pc' = "loop" /\ ret' = ret /\ deadline' = now + Timeout
    /\ UNCHANGED <<results, fs, usernames, organized, moved, now,
                   enqueue_calls, organize_calls, history>>

\* lines 339-340: "if len(organized) >= total_expected: break"
AllHandled_never(st) == FALSE

AllHandled(st) == Cardinality(st.organized) >= st.total_expected

\* the state after the two for loops of one iteration
AfterLoops(u, oserr, enq_ok) ==
    ForNewlyFailed(ForNewlyDone(Locals, u.done, 1, oserr),
                   results, u.failed, 1, enq_ok)

ResultsAfter_storing_index(res, st) ==
    [i \in 1..Len(res) |->
        IF res[i].data.kind = "alts"
        THEN [res[i] EXCEPT !.data.selected = AttemptGet(st.attempt_index, res[i].label)]
        ELSE res[i]]

\* the results dict after the two for loops: the loops read results, data,
\* alts and next_alt and assign to none of them or of their items
ResultsAfter(res, st) == res

\* an operating-system failure of the move, or a failure of the enqueue, is an
\* input of the iteration only when the iteration gets to that call
Observable(u, oserr, enq_ok) ==
    /\ oserr => AfterLoops(u, TRUE, enq_ok) # AfterLoops(u, FALSE, enq_ok)
    /\ ~enq_ok => AfterLoops(u, oserr, FALSE) # AfterLoops(u, oserr, TRUE)

Entry(listing, u, oserr, enq_ok) ==
    [listing |-> listing, raised |-> u.raised, done |-> u.done,
     failed |-> u.failed, oserr |-> oserr, enq_ok |-> enq_ok,
     organized_before |-> organized, org_before |-> Len(organize_calls),
     enq_before |-> Len(enqueue_calls), fs_before |-> fs,
     usernames_before |-> usernames, dir_map_before |-> dir_map,
     attempt_before |-> attempt_index, expected_before |-> total_expected,
     moved_before |-> moved]

\* lines 256-347: one iteration of the while loop, entered because
\* time.time() < deadline
Poll ==
    /\ pc = "loop"
    /\ now < deadline
    /\ \E listing \in PollListings :
         \E u \in UnpackPair(completed_directories(TransfersOf(listing), usernames)) :
            IF u.raised
            THEN /\ pc' = "raised"
                 /\ history' = Append(history, Entry(listing, u, FALSE, FALSE))
                 /\ UNCHANGED <<results, fs, usernames, dir_map, organized, moved,
                                attempt_index, total_expected, null_count, now,
                                deadline, ret, enqueue_calls, organize_calls>>
            ELSE \E oserr \in BOOLEAN, enq_ok \in BOOLEAN :
                 LET st == AfterLoops(u, oserr, enq_ok)
                 IN  /\ Observable(u, oserr, enq_ok)
                     /\ history' = Append(history, Entry(listing, u, oserr, enq_ok))
                     /\ dir_map' = st.dir_map
                     /\ organized' = st.organized
                     /\ moved' = st.moved
                     /\ attempt_index' = st.attempt_index
                     /\ total_expected' = st.total_expected
                     /\ usernames' = st.usernames
                     /\ fs' = st.fs
                     /\ enqueue_calls' = st.enq
                     /\ organize_calls' = st.org
                     /\ IF AllHandled(st)
                        THEN pc' = "done" /\ ret' = <<st.moved, Skipped(st)>>
                             /\ now' = now
                        ELSE pc' = "loop" /\ ret' = ret /\ now' = now + 1
                     /\ results' = ResultsAfter(results, st)
                     /\ UNCHANGED <<null_count, deadline>>

\* lines 348-357: the while condition fails, the else clause logs and the
\* function returns
DeadlinePassed ==
    /\ pc = "loop"
    /\ now >= deadline
    /\ pc' = "done"
    /\ ret' = <<moved, total_expected - moved + null_count>>
    /\ UNCHANGED <<results, fs, usernames, dir_map, organized, moved,
                   attempt_index, total_expected, null_count, now, deadline,
                   enqueue_calls, organize_calls, history>>

(***************************************************************************)
(* State of the checks of the pure functions.                              *)
(***************************************************************************)
VARIABLES
    nm,   \* normalization: a raw path and the keys the two subsystems built
    cd,   \* _completed_directories: its arguments and what the caller got
    oa,   \* _organize_album: its arguments, the tree and the calls made
    od,  \* organize_downloads: its arguments and what it returned
    rk,  \* rank_results: its arguments and the list it returned
    fr,  \* filter_responses: its arguments and the list it returned
    cs,  \* _cmd_search and _cmd_download for one album
    dl,  \* _cmd_download: the queueing of every album and the wait it starts
    rs,  \* a resumed run: what the first run of wait_and_organize left
    lb,  \* Album.from_line(str(album)): the album, its label and what was parsed
    pr   \* two watched directories of two albums, completing in either order

vars == <<results, fs, usernames, dir_map, organized, moved, attempt_index,
          total_expected, null_count, now, deadline, pc, ret, enqueue_calls,
          organize_calls, history, nm, cd, oa, od, rk, fr, cs, dl, rs, lb, pr>>

Idle == [used |-> FALSE]

WoIdle ==
    /\ results = <<>> /\ fs = TreeOf({}) /\ usernames = {}
    /\ dir_map = EmptyMap /\ organized = {} /\ moved = 0
    /\ attempt_index = EmptyMap /\ total_expected = 0 /\ null_count = 0
    /\ now = 0 /\ deadline = 0 /\ pc = "idle" /\ ret = <<>>
    /\ enqueue_calls = <<>> /\ organize_calls = <<>> /\ history = <<>>

(***************************************************************************)
(* Spec: a run of wait_and_organize.                                       *)
(***************************************************************************)
Init ==
    /\ results \in ResultsUniverse
    /\ fs \in InitialTrees
    /\ usernames \in InitialUsernames
    /\ dir_map = EmptyMap /\ organized = {} /\ moved = 0
    /\ attempt_index = EmptyMap /\ total_expected = 0 /\ null_count = 0
    /\ now = 0 /\ deadline = 0 /\ pc = "start" /\ ret = <<>>
    /\ enqueue_calls = <<>> /\ organize_calls = <<>> /\ history = <<>>
    /\ nm = Idle /\ cd = Idle /\ oa = Idle /\ od = Idle /\ rk = Idle /\ fr = Idle /\ cs = Idle /\ dl = Idle /\ rs = Idle /\ lb = Idle /\ pr = Idle

Next ==
    \/ Start /\ UNCHANGED <<nm, cd, oa, od, rk, fr, cs, dl, rs, lb, pr>>
    \/ Poll /\ UNCHANGED <<nm, cd, oa, od, rk, fr, cs, dl, rs, lb, pr>>
    \/ DeadlinePassed /\ UNCHANGED <<nm, cd, oa, od, rk, fr, cs, dl, rs, lb, pr>>

Spec == Init /\ [][Next]_vars

(***************************************************************************)
(* SpecNorm: the watch-map key of one raw remote path, as built by         *)
(* _build_dir_to_album_map, by the retry branch and by                     *)
(* _completed_directories.                                                 *)
(***************************************************************************)
PathChars == {"a", "b", "/", BS}

RawPaths == UNION {[1..n -> PathChars] : n \in 1..MaxPathLen}

OneAlbum(raw) ==
    <<[label |-> LabelA,
       data |-> Flat([username |-> "u1", directory |-> raw, files |-> "f1"])]>>

OneTransfer(raw) ==
    <<[username |-> "u1",
       directories |-> <<[directory |-> raw, files |-> <<Succeeded>>]>>]>>

InitNorm ==
    /\ WoIdle /\ cd = Idle /\ oa = Idle /\ od = Idle /\ rk = Idle /\ fr = Idle /\ cs = Idle /\ dl = Idle /\ rs = Idle /\ lb = Idle /\ pr = Idle
    /\ nm \in {[used |-> TRUE, raw |-> r, built |-> FALSE, map_keys |-> {},
                retry_key |-> <<>>, cd_keys |-> {}, map_key_again |-> <<>>] :
                    r \in RawPaths}

BuildKeys ==
    /\ nm.used /\ ~nm.built
    /\ nm' = [nm EXCEPT
                !.built = TRUE,
                !.map_keys = DOMAIN build_dir_to_album_map(OneAlbum(nm.raw)),
                !.retry_key = normalize_path(nm.raw),
                !.cd_keys = completed_directories(OneTransfer(nm.raw), {"u1"}),
                !.map_key_again = normalize_path(normalize_path(nm.raw))]
    /\ UNCHANGED <<woVars, cd, oa, od, rk, fr, cs, dl, rs, lb, pr>>

NextNorm == BuildKeys

SpecNorm == InitNorm /\ [][NextNorm]_vars

(***************************************************************************)
(* SpecCD: one call "succeeded, failed = _completed_directories(...)".     *)
(***************************************************************************)
WatchSets == SUBSET {"u1", "u2"}

InitCD ==
    /\ WoIdle /\ nm = Idle /\ oa = Idle /\ od = Idle /\ rk = Idle /\ fr = Idle /\ cs = Idle /\ dl = Idle /\ rs = Idle /\ lb = Idle /\ pr = Idle
    /\ cd \in {[used |-> TRUE, listing |-> l, usernames |-> w, called |-> FALSE,
                completed |-> {},
                out |-> [raised |-> FALSE, done |-> <<>>, failed |-> <<>>]] :
                    l \in Listings, w \in WatchSets}

CallCompletedDirectories ==
    /\ cd.used /\ ~cd.called
    /\ \E u \in UnpackPair(completed_directories(TransfersOf(cd.listing),
                                                 cd.usernames)) :
         cd' = [cd EXCEPT
                  !.called = TRUE,
                  !.completed = completed_directories(TransfersOf(cd.listing),
                                                      cd.usernames),
                  !.out = u]
    /\ UNCHANGED <<woVars, nm, oa, od, rk, fr, cs, dl, rs, lb, pr>>

NextCD == CallCompletedDirectories

SpecCD == InitCD /\ [][NextCD]_vars

(***************************************************************************)
(* SpecOA: calls of _organize_album with one album label and remote path   *)
(* on a tree of downloads_dir.                                             *)
(***************************************************************************)
TargetInside == <<(<<"a">>), (<<"b">>)>>

\* sets of directories closed under taking the parent
OATrees ==
    {TreeOf(D) : D \in
        {D \in SUBSET {FolderA, FolderB, TargetInside, <<(<<"x">>)>>, TargetA,
                       <<(<<"y">>)>>, TargetB} :
            \A q \in D : Len(q) > 1 => Parent(q) \in D}}

InitOA ==
    /\ WoIdle /\ nm = Idle /\ cd = Idle /\ od = Idle /\ rk = Idle /\ fr = Idle /\ cs = Idle /\ dl = Idle /\ rs = Idle /\ lb = Idle /\ pr = Idle
    /\ oa \in {[used |-> TRUE, album_str |-> l, remote_dir |-> d, fs |-> t,
                calls |-> <<>>] :
                    l \in Labels, d \in RemoteDirs, t \in OATrees}

CallOrganizeAlbum ==
    /\ oa.used /\ Len(oa.calls) < MaxCalls
    /\ \E oserr \in BOOLEAN :
         LET r == organize_album(oa.album_str, oa.remote_dir, oa.fs, oserr)
         IN  /\ oserr => r # organize_album(oa.album_str, oa.remote_dir, oa.fs, FALSE)
             /\ oa' = [oa EXCEPT
                         !.fs = r.fs,
                         !.calls = Append(@, [pre |-> oa.fs, post |-> r.fs,
                                              ok |-> r.ok, oserr |-> oserr])]
    /\ UNCHANGED <<woVars, nm, cd, od, rk, fr, cs, dl, rs, lb, pr>>

NextOA == CallOrganizeAlbum

SpecOA == InitOA /\ [][NextOA]_vars

(***************************************************************************)
(* SpecOD: one call of organize_downloads on a result set and a tree.      *)
(***************************************************************************)
\* str(data.get("directory", "")): the new shape has no "directory" key
BatchRemoteDir(data) == IF data.kind = "flat" THEN data.directory ELSE <<>>

BatchCount(acc, label, remote_dir, r) ==
    [moved |-> IF r.ok THEN acc.moved + 1 ELSE acc.moved,
     skipped |-> IF r.ok THEN acc.skipped ELSE acc.skipped + 1,
     fs |-> r.fs,
     calls |-> Append(acc.calls, [album_str |-> label, remote_dir |-> remote_dir,
                                  ok |-> r.ok, pre |-> acc.fs, post |-> r.fs])]

BatchBody_not_counting_null(acc, label, data, oserr) ==
    IF data.kind = "null" THEN acc
    ELSE IF BatchRemoteDir(data) = <<>>
    THEN [acc EXCEPT !.skipped = @ + 1]
    ELSE BatchCount(acc, label, BatchRemoteDir(data),
                    organize_album(label, BatchRemoteDir(data), acc.fs, oserr))

\* lines 193-210: the body of "for album_str, data in results.items()"
BatchBody(acc, label, data, oserr) ==
    IF data.kind = "null" THEN [acc EXCEPT !.skipped = @ + 1]
    ELSE IF BatchRemoteDir(data) = <<>>
    THEN [acc EXCEPT !.skipped = @ + 1]
    ELSE BatchCount(acc, label, BatchRemoteDir(data),
                    organize_album(label, BatchRemoteDir(data), acc.fs, oserr))

RECURSIVE BatchFrom(_, _, _, _)
BatchFrom(res, i, acc, oserrs) ==
    IF i > Len(res) THEN acc
    ELSE BatchFrom(res, i + 1,
                   BatchBody(acc, res[i].label, res[i].data, oserrs[i]), oserrs)

\* organize_downloads(results, downloads_dir) on the tree f; oserrs[i] tells
\* whether the operating system refuses the move of the i-th album
organize_downloads(res, f, oserrs) ==
    BatchFrom(res, 1, [moved |-> 0, skipped |-> 0, fs |-> f, calls |-> <<>>], oserrs)

\* a legacy outcome whose "directory" is the empty string
FlatNoDirectory == Flat([username |-> "u1", directory |-> <<>>, files |-> "f1"])

BatchResults ==
    {<<[label |-> LabelA, data |-> d]>> : d \in OutcomesA \cup {FlatNoDirectory}}
        \cup {<<[label |-> LabelA, data |-> d], [label |-> LabelB, data |-> e]>> :
                d \in OutcomesA \cup {FlatNoDirectory}, e \in OutcomesB}

InitOD ==
    /\ WoIdle /\ nm = Idle /\ cd = Idle /\ oa = Idle /\ rk = Idle /\ fr = Idle /\ cs = Idle /\ dl = Idle /\ rs = Idle /\ lb = Idle /\ pr = Idle
    /\ od \in {[used |-> TRUE, results |-> r, pre |-> t, called |-> FALSE,
                oserrs |-> <<>>, moved |-> 0, skipped |-> 0, post |-> t,
                calls |-> <<>>] : r \in BatchResults, t \in InitialTrees}

\* a refusal of the operating system is an input only for a move that is tried
OSErrorsSeen(res, f, oserrs) ==
    \A i \in 1..Len(res) :
        oserrs[i] => organize_downloads(res, f, oserrs)
                        # organize_downloads(res, f, [oserrs EXCEPT ![i] = FALSE])

CallOrganizeDownloads ==
    /\ od.used /\ ~od.called
    /\ \E oserrs \in [1..Len(od.results) -> BOOLEAN] :
         LET r == organize_downloads(od.results, od.pre, oserrs)
         IN  /\ OSErrorsSeen(od.results, od.pre, oserrs)
             /\ od' = [od EXCEPT !.called = TRUE, !.oserrs = oserrs,
                                 !.moved = r.moved, !.skipped = r.skipped,
                                 !.post = r.fs, !.calls = r.calls]
    /\ UNCHANGED <<woVars, nm, cd, oa, rk, fr, cs, dl, rs, lb, pr>>

NextOD == CallOrganizeDownloads

SpecOD == InitOD /\ [][NextOD]_vars

(***************************************************************************)
(* search.py: rank_results.  SpecRank: one call on a list of candidates    *)
(* and a preference order of formats.                                      *)
(***************************************************************************)
Candidate(username, format, has_free_slot, bitrate, upload_speed, queue_length) ==
    [username |-> username, format |-> format, has_free_slot |-> has_free_slot,
     bitrate |-> bitrate, upload_speed |-> upload_speed,
     queue_length |-> queue_length]

FlacFree == Candidate("u1", "flac", TRUE, 1411, 2, 0)
Mp3Queued == Candidate("u2", "mp3", FALSE, 320, 2, 5)
Mp3Free == Candidate("u3", "mp3", TRUE, 320, 2, 0)
Mp3FreeTwin == Candidate("u4", "mp3", TRUE, 320, 2, 0)
FlacSlow == Candidate("u5", "flac", TRUE, 1411, 1, 0)
OggFree == Candidate("u6", "ogg", TRUE, 1411, 2, 0)
FlacQueued == Candidate("u7", "flac", FALSE, 1411, 2, 3)
FlacLongQueue == Candidate("u8", "flac", FALSE, 1411, 2, 5)
FlacLowRate == Candidate("u9", "flac", TRUE, 900, 2, 0)

Candidates == {FlacFree, Mp3Queued, Mp3Free, Mp3FreeTwin, FlacSlow, OggFree,
               FlacQueued, FlacLongQueue, FlacLowRate}

CandidateLists == UNION {[1..n -> Candidates] : n \in 0..MaxRanked}

\* settings.preferred_formats: a preference order, each format once
PreferenceOrders == {<<>>, <<"flac">>, <<"flac", "mp3">>, <<"mp3", "flac">>}

\* format_order.get(fmt, max_idx) for format_order = {fmt: idx for idx, fmt in
\* enumerate(preferred_formats)}: a later entry of the same format replaces
\* the earlier one
FormatOrderGet(preferred_formats, fmt) ==
    LET at == {i \in 1..Len(preferred_formats) : preferred_formats[i] = fmt}
    IN  IF at = {} THEN Len(preferred_formats)
        ELSE (CHOOSE i \in at : \A j \in at : j <= i) - 1

sort_key_without_slot(r, preferred_formats) ==
    <<FormatOrderGet(preferred_formats, r.format), 0,
      0 - r.bitrate, 0 - r.upload_speed, r.queue_length>>

sort_key(r, preferred_formats) ==
    <<FormatOrderGet(preferred_formats, r.format),
      IF r.has_free_slot THEN 0 ELSE 1,
      0 - r.bitrate, 0 - r.upload_speed, r.queue_length>>

\* a < b for two tuples of the same length
TupleLess(a, b) ==
    \E i \in 1..Len(a) :
        /\ a[i] < b[i]
        /\ \A j \in 1..(i - 1) : a[j] = b[j]

\* sorted() is stable: an element goes behind the elements already placed
\* whose key is not greater than its own
InsertByKey(placed, r, preferred_formats) ==
    LET before == {i \in 1..Len(placed) :
                      ~TupleLess(sort_key(r, preferred_formats),
                                 sort_key(placed[i], preferred_formats))}
        n == IF before = {} THEN 0 ELSE CHOOSE i \in before : \A j \in before : j <= i
    IN  SubSeq(placed, 1, n) \o <<r>> \o SubSeq(placed, n + 1, Len(placed))

RECURSIVE SortedFrom(_, _, _, _)
SortedFrom(list, i, placed, preferred_formats) ==
    IF i > Len(list) THEN placed
    ELSE SortedFrom(list, i + 1, InsertByKey(placed, list[i], preferred_formats),
                    preferred_formats)

rank_results(list, preferred_formats) == SortedFrom(list, 1, <<>>, preferred_formats)

InitRank ==
    /\ WoIdle /\ nm = Idle /\ cd = Idle /\ oa = Idle /\ od = Idle /\ fr = Idle /\ cs = Idle /\ dl = Idle /\ rs = Idle /\ lb = Idle /\ pr = Idle
    /\ rk \in {[used |-> TRUE, results |-> l, preferred_formats |-> pf,
                called |-> FALSE, ranked |-> <<>>] :
                    l \in CandidateLists, pf \in PreferenceOrders}

CallRankResults ==
    /\ rk.used /\ ~rk.called
    /\ rk' = [rk EXCEPT !.called = TRUE,
                        !.ranked = rank_results(rk.results, rk.preferred_formats)]
    /\ UNCHANGED <<woVars, nm, cd, oa, od, fr, cs, dl, rs, lb, pr>>

NextRank == CallRankResults

SpecRank == InitRank /\ [][NextRank]_vars

(***************************************************************************)
(* search.py: filter_responses and its helpers.  SpecFilter: one call on   *)
(* a list of responses, the settings and an optional album.                *)
(***************************************************************************)
UpperToLower ==
    ("A" :> "a") @@ ("B" :> "b") @@ ("C" :> "c") @@ ("F" :> "f") @@ ("L" :> "l")
        @@ ("M" :> "m") @@ ("P" :> "p") @@ ("X" :> "x") @@ ("Y" :> "y") @@ ("Z" :> "z")

\* str.lower()
Lower(s) ==
    [i \in 1..Len(s) |-> IF s[i] \in DOMAIN UpperToLower THEN UpperToLower[s[i]] ELSE s[i]]

\* str.lstrip(".")
LStripDot(s) ==
    LET keep == {i \in 1..Len(s) : s[i] # "."}
    IN  IF keep = {} THEN <<>>
        ELSE SubSeq(s, CHOOSE i \in keep : \A j \in keep : i <= j, Len(s))

normalize_ext(raw) == LStripDot(Lower(raw))

\* filename.rsplit(".", maxsplit=1)[-1] for a filename with a "."
AfterLastDot(s) ==
    LET dots == {i \in 1..Len(s) : s[i] = "."}
    IN  SubSeq(s, (CHOOSE i \in dots : \A j \in dots : j <= i) + 1, Len(s))

file_ext(f) ==
    IF normalize_ext(f.extension) # <<>> THEN normalize_ext(f.extension)
    ELSE IF \E i \in 1..Len(f.filename) : f.filename[i] = "."
    THEN normalize_ext(AfterLastDot(f.filename))
    ELSE <<>>

LOSSLESS_FORMATS == {<<"f", "l", "a", "c">>, <<"w", "a", "v">>, <<"a", "l", "a", "c">>, <<"a", "p", "e">>, <<"w", "v">>}

SKIP_WORDS ==
    {<<"a">>, <<"a", "n">>, <<"t", "h", "e">>, <<"o", "f">>, <<"i", "n">>, <<"o", "n">>, <<"a", "t">>, <<"t", "o">>, <<"a", "n", "d">>,
     <<"o", "r">>, <<"f", "o", "r">>, <<"b", "y">>, <<"i", "s">>, <<"i", "t">>, <<"n", "o">>}

\* the files a response may hold: name, "extension" field, "bitRate" (0 when
\* the field is missing)
FileFlac == [filename |-> <<"m", BS, "A", "b", "c", BS, "1", ".", "f", "l", "a", "c">>, extension |-> <<"f", "l", "a", "c">>, bitRate |-> 1411]
FileFlacUpper == [filename |-> <<"m", BS, "A", "b", "c", BS, "2">>, extension |-> <<".", "F", "L", "A", "C">>, bitRate |-> 0]
FileMp3Low == [filename |-> <<"m", BS, "A", "b", "c", BS, "3", ".", "m", "p", "3">>, extension |-> <<>>, bitRate |-> 128]
FileMp3High == [filename |-> <<"X", "y", "z", BS, "a", "b", "c", "d", BS, "4", ".", "m", "p", "3">>, extension |-> <<"m", "p", "3">>, bitRate |-> 320]
FileJpg == [filename |-> <<"X", "y", "z", BS, "a", "b", "c", "d", BS, "c", ".", "j", "p", "g">>, extension |-> <<"j", "p", "g">>, bitRate |-> 0]
FileNoExt == [filename |-> <<"m", BS, "A", "b", "c", BS, "R">>, extension |-> <<>>, bitRate |-> 0]

Files == {FileFlac, FileFlacUpper, FileMp3Low, FileMp3High, FileJpg, FileNoExt}

\* str(PurePosixPath(s).parent)
RECURSIVE JoinSlash(_)
JoinSlash(parts) ==
    IF Len(parts) = 0 THEN <<>>
    ELSE IF Len(parts) = 1 THEN parts[1]
    ELSE parts[1] \o <<"/">> \o JoinSlash(Tail(parts))

PosixParent(s) ==
    LET parts == PathParts(s)
        anchored == s # <<>> /\ s[1] = "/"
    IN  IF Len(parts) <= 1 THEN (IF anchored THEN <<"/">> ELSE <<".">>)
        ELSE (IF anchored THEN <<"/">> ELSE <<>>)
                 \o JoinSlash(SubSeq(parts, 1, Len(parts) - 1))

\* the values the helpers give on these files, computed once
FileExtOf == [f \in Files |-> file_ext(f)]

ParentOf == [f \in Files |-> PosixParent(ReplaceBackslash(f.filename))]

\* the extensions counted by _dominant_format, in the order of the files
CountedExts(files) ==
    SelectSeq([i \in 1..Len(files) |-> FileExtOf[files[i]]], LAMBDA e : e # <<>>)

CountOf(exts, e) == Cardinality({i \in 1..Len(exts) : exts[i] = e})

dominant_format_last_seen(files) ==
    LET exts == CountedExts(files)
        best == {i \in 1..Len(exts) :
                    \A j \in 1..Len(exts) : CountOf(exts, exts[j]) <= CountOf(exts, exts[i])}
    IN  IF exts = <<>> THEN <<>>
        ELSE exts[CHOOSE i \in best : \A j \in best : j <= i]

\* max(counts, key=...) gives the first key, in insertion order, whose count
\* is the largest
dominant_format(files) ==
    LET exts == CountedExts(files)
        best == {i \in 1..Len(exts) :
                    \A j \in 1..Len(exts) : CountOf(exts, exts[j]) <= CountOf(exts, exts[i])}
    IN  IF exts = <<>> THEN <<>>
        ELSE exts[CHOOSE i \in best : \A j \in best : i <= j]

RECURSIVE SumRates(_)
SumRates(rates) == IF rates = <<>> THEN 0 ELSE Head(rates) + SumRates(Tail(rates))

\* int(sum(rates) / len(rates)) over the files that report a bitrate
avg_bitrate(files) ==
    LET rates == SelectSeq([i \in 1..Len(files) |-> files[i].bitRate], LAMBDA b : b # 0)
    IN  IF rates = <<>> THEN 0 ELSE SumRates(rates) \div Len(rates)

\* str.split(): the pieces between runs of whitespace
RECURSIVE SplitWords(_)
SplitWords(s) ==
    LET t == Strip(s)
        gaps == {i \in 1..Len(t) : t[i] = SP}
    IN  IF t = <<>> THEN <<>>
        ELSE IF gaps = {} THEN <<t>>
        ELSE LET c == CHOOSE i \in gaps : \A j \in gaps : i <= j
             IN  <<SubSeq(t, 1, c - 1)>> \o SplitWords(SubSeq(t, c + 1, Len(t)))

matches_album_any_word(directory, title) ==
    LET significant == SelectSeq(SplitWords(Lower(title)),
                                 LAMBDA w : Len(w) > 2 /\ w \notin SKIP_WORDS)
    IN  IF significant = <<>> THEN TRUE
        ELSE \E k \in 1..Len(significant) : StrContains(Lower(directory), significant[k])

matches_album(directory, title) ==
    LET significant == SelectSeq(SplitWords(Lower(title)),
                                 LAMBDA w : Len(w) > 2 /\ w \notin SKIP_WORDS)
    IN  IF significant = <<>> THEN TRUE
        ELSE \A k \in 1..Len(significant) : StrContains(Lower(directory), significant[k])

NoAlbum == [given |-> FALSE, title |-> <<>>]

AlbumTitled(title) == [given |-> TRUE, title |-> title]

\* lines 157-225: the body of "for resp in responses"; what it appends
FilterOne(resp, settings, album) ==
    LET audio_files == SelectSeq(resp.files,
                                 LAMBDA f : \E k \in 1..Len(settings.preferred_formats) :
                                               settings.preferred_formats[k] = FileExtOf[f])
        fmt == dominant_format(audio_files)
        bitrate == avg_bitrate(audio_files)
    IN  IF Len(audio_files) < settings.min_files THEN <<>>
        ELSE IF fmt \notin LOSSLESS_FORMATS /\ bitrate < settings.min_bitrate THEN <<>>
        ELSE IF album.given /\ ~matches_album(ParentOf[audio_files[1]], album.title)
        THEN <<>>
        ELSE <<[username |-> resp.username, directory |-> ParentOf[audio_files[1]],
                files |-> audio_files, format |-> fmt, bitrate |-> bitrate,
                upload_speed |-> resp.uploadSpeed,
                has_free_slot |-> resp.hasFreeUploadSlot,
                queue_length |-> resp.queueLength]>>

RECURSIVE FilterFrom(_, _, _, _)
FilterFrom(responses, i, settings, album) ==
    IF i > Len(responses) THEN <<>>
    ELSE FilterOne(responses[i], settings, album)
             \o FilterFrom(responses, i + 1, settings, album)

filter_responses(responses, settings, album) == FilterFrom(responses, 1, settings, album)

Response(username, files) ==
    [username |-> username, files |-> files, hasFreeUploadSlot |-> TRUE,
     uploadSpeed |-> 2, queueLength |-> 0]

FileLists3 == UNION {[1..n -> Files] : n \in 0..MaxFiles}

\* one response, or the response followed by one that passes every filter
ResponseLists ==
    {<<Response("u1", fl)>> : fl \in FileLists3}
        \cup {<<Response("u1", fl), Response("u2", <<FileFlac, FileFlac>>)>> :
                fl \in FileLists3}

FilterSettings ==
    {[preferred_formats |-> pf, min_files |-> mf, min_bitrate |-> mb] :
        pf \in {<<<<"f", "l", "a", "c">>, <<"m", "p", "3">>>>, <<<<"m", "p", "3">>>>}, mf \in 1..2, mb \in {192, 320}}

TitleAbc == <<"A", "b", "c">>
TitleTwo == <<"t", "h", "e", SP, "A", "b", "c", SP, SP, "X", "y", "z">>
TitleStop == <<"t", "h", "e", SP, "o", "f">>

FilterAlbums == {NoAlbum, AlbumTitled(TitleAbc), AlbumTitled(TitleTwo), AlbumTitled(TitleStop)}

InitFilter ==
    /\ WoIdle /\ nm = Idle /\ cd = Idle /\ oa = Idle /\ od = Idle /\ rk = Idle /\ cs = Idle /\ dl = Idle /\ rs = Idle /\ lb = Idle /\ pr = Idle
    /\ fr \in {[used |-> TRUE, responses |-> r, settings |-> st, album |-> al,
                called |-> FALSE, out |-> <<>>] :
                    r \in ResponseLists, st \in FilterSettings, al \in FilterAlbums}

CallFilterResponses ==
    /\ fr.used /\ ~fr.called
    /\ fr' = [fr EXCEPT !.called = TRUE,
                        !.out = filter_responses(fr.responses, fr.settings, fr.album)]
    /\ UNCHANGED <<woVars, nm, cd, oa, od, rk, cs, dl, rs, lb, pr>>

NextFilter == CallFilterResponses

SpecFilter == InitFilter /\ [][NextFilter]_vars

(***************************************************************************)
(* cli.py: _cmd_search and _cmd_download, for one album.  SpecCLI: the     *)
(* search writes the outcome of the album, the download reads it and       *)
(* enqueues; the wait that follows a download is Spec above.               *)
(***************************************************************************)
\* an AlbumSearchResult with its directory and files
Found(c, directory, files) ==
    [username |-> c.username, directory |-> directory, files |-> files,
     format |-> c.format, bitrate |-> c.bitrate, upload_speed |-> c.upload_speed,
     has_free_slot |-> c.has_free_slot, queue_length |-> c.queue_length]

FoundPool ==
    << Found(Mp3Queued, DirA, "f2"), Found(FlacFree, DirMA, "f1"),
       Found(OggFree, DirB, "f6"), Found(FlacLowRate, DirMB, "f9"),
       Found(Mp3Free, DirMAslash, "f3"), Found(FlacQueued, DirMA, "f7"),
       Found(FlacSlow, DirA, "f5"), Found(FlacLongQueue, DirB, "f8") >>

\* what filter_responses left for the album
FoundLists ==
    {SubSeq(FoundPool, 1, n) : n \in 0..(IF MaxFound < Len(FoundPool) THEN MaxFound ELSE Len(FoundPool))}

\* the dict written for one alternative
Written(r) ==
    [username |-> r.username, directory |-> r.directory, files |-> r.files,
     format |-> r.format, bitrate |-> r.bitrate]

WrittenAll(list) == [i \in 1..Len(list) |-> Written(list[i])]

TopThree_keeping_all(ranked) == ranked

\* ranked[:3]
TopThree(ranked) == SubSeq(ranked, 1, IF Len(ranked) < 3 THEN Len(ranked) ELSE 3)

DigitValue ==
    ("0" :> 0) @@ ("1" :> 1) @@ ("2" :> 2) @@ ("3" :> 3) @@ ("4" :> 4)
        @@ ("5" :> 5) @@ ("6" :> 6) @@ ("7" :> 7) @@ ("8" :> 8) @@ ("9" :> 9)

\* str.isdigit()
IsDigit(choice) ==
    choice # <<>> /\ \A i \in 1..Len(choice) : choice[i] \in DOMAIN DigitValue

\* int(choice)
RECURSIVE IntOf(_)
IntOf(choice) ==
    IF choice = <<>> THEN 0
    ELSE 10 * IntOf(SubSeq(choice, 1, Len(choice) - 1)) + DigitValue[choice[Len(choice)]]

\* lines 434-435: idx = int(choice) - 1 if choice.isdigit() else 0, clamped
ChosenIndex(choice, n) ==
    LET idx == IF IsDigit(choice) THEN IntOf(choice) - 1 ELSE 0
        top == IF idx < n - 1 THEN idx ELSE n - 1
    IN  IF top > 0 THEN top ELSE 0

\* lines 436-454: the outcome of the interactive choice
ChosenOutcome(ranked, idx) ==
    IF idx < 3 THEN Alts(idx, WrittenAll(TopThree(ranked)))
    ELSE Alts(0, WrittenAll(<<ranked[idx + 1]>> \o SubSeq(ranked, 1, 2)))

\* lines 373-454: all_results[str(album)] for one album
SearchOutcome(found, preferred_formats, auto, choice) ==
    LET ranked == rank_results(found, preferred_formats)
    IN  IF ranked = <<>> THEN Null
        ELSE IF auto THEN Alts(0, WrittenAll(TopThree(ranked)))
        ELSE IF choice = <<"0">> THEN Null
        ELSE ChosenOutcome(ranked, ChosenIndex(choice, Len(ranked)))

\* what the user types at "Choose [1]:" (after strip())
Choices ==
    {<<>>, <<"x">>, <<"0", "0">>, <<"1", "2">>} \cup {<<d>> : d \in {"0", "1", "2", "3", "4", "5", "6", "7"}}

InitCLI ==
    /\ WoIdle /\ nm = Idle /\ cd = Idle /\ oa = Idle /\ od = Idle /\ rk = Idle /\ fr = Idle /\ dl = Idle /\ rs = Idle /\ lb = Idle /\ pr = Idle
    /\ cs \in {[used |-> TRUE, found |-> f, preferred_formats |-> <<"flac", "mp3">>,
                search_ok |-> ok, auto |-> a, choice |-> c, pc |-> "search",
                ranked |-> <<>>, outcome |-> Null, enq |-> <<>>,
                queued |-> 0, skipped |-> 0] :
                    f \in FoundLists, ok \in BOOLEAN, a \in BOOLEAN, c \in Choices}

\* lines 354-461: the search of the album and the write of its outcome
CmdSearch ==
    /\ cs.used /\ cs.pc = "search"
    /\ cs' = [cs EXCEPT
                !.pc = "download",
                !.ranked = IF cs.search_ok
                           THEN rank_results(cs.found, cs.preferred_formats) ELSE <<>>,
                !.outcome = IF cs.search_ok
                            THEN SearchOutcome(cs.found, cs.preferred_formats,
                                               cs.auto, cs.choice)
                            ELSE Null]
    /\ UNCHANGED <<woVars, nm, cd, oa, od, rk, fr, dl, rs, lb, pr>>

\* lines 506-538: the queueing of the album read back from the file
CmdDownload ==
    /\ cs.used /\ cs.pc = "download"
    /\ \E enq_ok \in BOOLEAN :
         IF cs.outcome.kind = "null"
         THEN /\ enq_ok
              /\ cs' = [cs EXCEPT !.pc = "queued", !.skipped = @ + 1]
         ELSE LET entry == cs.outcome.alternatives[cs.outcome.selected + 1]
              IN  cs' = [cs EXCEPT
                           !.pc = "queued",
                           !.enq = Append(@, [username |-> entry.username,
                                              files |-> entry.files, ok |-> enq_ok]),
                           !.queued = IF enq_ok THEN @ + 1 ELSE @,
                           !.skipped = IF enq_ok THEN @ ELSE @ + 1]
    /\ UNCHANGED <<woVars, nm, cd, oa, od, rk, fr, dl, rs, lb, pr>>

NextCLI == CmdSearch \/ CmdDownload

SpecCLI == InitCLI /\ [][NextCLI]_vars

(***************************************************************************)
(* cli.py: _cmd_download for a whole result file.  SpecDL: the albums are  *)
(* queued one after the other and, when one was queued, wait_and_organize  *)
(* is called with the results and the peers queued from.                   *)
(***************************************************************************)
\* lines 512-524: the entry the album is queued from
DispatchEntry(data) ==
    IF data.kind = "alts" THEN data.alternatives[data.selected + 1]
    ELSE [username |-> data.username, directory |-> data.directory,
          files |-> data.files]

DispatchCall(label, entry, enq_ok) ==
    [username |-> entry.username, files |-> entry.files, album_str |-> label,
     ok |-> enq_ok]

DispatchBody_watching_failed(acc, label, data, enq_ok) ==
    IF data.kind = "null" THEN [acc EXCEPT !.skipped = @ + 1]
    ELSE IF enq_ok
         THEN [acc EXCEPT
                 !.enq = Append(@, DispatchCall(label, DispatchEntry(data), TRUE)),
                 !.queued = @ + 1,
                 !.usernames = @ \cup {DispatchEntry(data).username}]
         ELSE [acc EXCEPT
                 !.enq = Append(@, DispatchCall(label, DispatchEntry(data), FALSE)),
                 !.skipped = @ + 1,
                 !.usernames = @ \cup {DispatchEntry(data).username}]

\* lines 507-538: the body of "for album_str, data in results.items()"
DispatchBody(acc, label, data, enq_ok) ==
    IF data.kind = "null" THEN [acc EXCEPT !.skipped = @ + 1]
    ELSE IF enq_ok
         THEN [acc EXCEPT
                 !.enq = Append(@, DispatchCall(label, DispatchEntry(data), TRUE)),
                 !.queued = @ + 1,
                 !.usernames = @ \cup {DispatchEntry(data).username}]
         ELSE [acc EXCEPT
                 !.enq = Append(@, DispatchCall(label, DispatchEntry(data), FALSE)),
                 !.skipped = @ + 1]

RECURSIVE DispatchFrom(_, _, _, _)
DispatchFrom(res, i, acc, enq_oks) ==
    IF i > Len(res) THEN acc
    ELSE DispatchFrom(res, i + 1,
                      DispatchBody(acc, res[i].label, res[i].data, enq_oks[i]),
                      enq_oks)

\* lines 503-538; enq_oks[i] tells whether the Transfer Service accepts the
\* enqueue of the i-th album
queue_albums(res, enq_oks) ==
    DispatchFrom(res, 1, [queued |-> 0, skipped |-> 0, usernames |-> {},
                          enq |-> <<>>], enq_oks)

\* the outcomes _cmd_search writes for the first album, and the legacy shape
QueueOutcomesA ==
    {d \in OutcomesA : d = Null \/ ActiveRemoteDir(d) # <<>>}

QueueResults ==
    {<<[label |-> LabelA, data |-> d]>> : d \in QueueOutcomesA}
        \cup {<<[label |-> LabelA, data |-> d], [label |-> LabelB, data |-> e]>> :
                d \in QueueOutcomesA, e \in OutcomesB}

InitDL ==
    /\ results = <<>> /\ fs = TreeOf({FolderA, FolderB}) /\ usernames = {}
    /\ dir_map = EmptyMap /\ organized = {} /\ moved = 0
    /\ attempt_index = EmptyMap /\ total_expected = 0 /\ null_count = 0
    /\ now = 0 /\ deadline = 0 /\ pc = "idle" /\ ret = <<>>
    /\ enqueue_calls = <<>> /\ organize_calls = <<>> /\ history = <<>>
    /\ nm = Idle /\ cd = Idle /\ oa = Idle /\ od = Idle /\ rk = Idle /\ fr = Idle /\ cs = Idle /\ rs = Idle /\ lb = Idle /\ pr = Idle
    /\ dl \in {[used |-> TRUE, results |-> r, pc |-> "queueing", enq_oks |-> <<>>,
                queued |-> 0, skipped |-> 0, usernames |-> {}, enq |-> <<>>] :
                    r \in QueueResults}

\* lines 503-564: the queueing of every album, then either the return at
\* "Nothing to download." or the call of wait_and_organize
CmdDownloadAll ==
    /\ dl.used /\ dl.pc = "queueing"
    /\ \E enq_oks \in [1..Len(dl.results) -> BOOLEAN] :
         LET q == queue_albums(dl.results, enq_oks)
         IN  /\ \A i \in 1..Len(dl.results) :
                   dl.results[i].data.kind = "null" => enq_oks[i]
             /\ dl' = [dl EXCEPT
                         !.pc = IF q.queued = 0 THEN "returned" ELSE "waiting",
                         !.enq_oks = enq_oks, !.queued = q.queued,
                         !.skipped = q.skipped, !.usernames = q.usernames,
                         !.enq = q.enq]
             /\ IF q.queued = 0
                THEN UNCHANGED <<results, usernames, pc>>
                ELSE /\ results' = dl.results
                     /\ usernames' = q.usernames
                     /\ pc' = "start"
    /\ UNCHANGED <<fs, dir_map, organized, moved, attempt_index, total_expected,
                   null_count, now, deadline, ret, enqueue_calls, organize_calls,
                   history>>
    /\ UNCHANGED <<nm, cd, oa, od, rk, fr, cs, rs, lb, pr>>

NextDL ==
    \/ CmdDownloadAll
    \/ Start /\ UNCHANGED <<nm, cd, oa, od, rk, fr, cs, dl, rs, lb, pr>>
    \/ Poll /\ UNCHANGED <<nm, cd, oa, od, rk, fr, cs, dl, rs, lb, pr>>
    \/ DeadlinePassed /\ UNCHANGED <<nm, cd, oa, od, rk, fr, cs, dl, rs, lb, pr>>

SpecDL == InitDL /\ [][NextDL]_vars

(***************************************************************************)
(* SpecResume: wait_and_organize is run, and after it moved an album and   *)
(* returned, raised or was stopped between two polls it is run again in a  *)
(* new process with the same results and peers on the tree it left.        *)
(***************************************************************************)
\* the albums the Organizer moved
MovedLabels(calls) == {calls[j].album_str : j \in {j \in 1..Len(calls) : calls[j].ok}}

InitResume ==
    /\ results \in {r \in ResultsUniverse : ActiveRemoteDir(r[1].data) = DirA}
    /\ usernames = {"u1", "u2"}
    /\ fs = TreeOf({FolderA, FolderB})
    /\ dir_map = EmptyMap /\ organized = {} /\ moved = 0
    /\ attempt_index = EmptyMap /\ total_expected = 0 /\ null_count = 0
    /\ now = 0 /\ deadline = 0 /\ pc = "start" /\ ret = <<>>
    /\ enqueue_calls = <<>> /\ organize_calls = <<>> /\ history = <<>>
    /\ nm = Idle /\ cd = Idle /\ oa = Idle /\ od = Idle /\ rk = Idle /\ fr = Idle /\ cs = Idle /\ dl = Idle /\ lb = Idle /\ pr = Idle
    /\ rs = [used |-> TRUE, run |-> 1, usernames |-> {"u1", "u2"},
             fs |-> fs, moved |-> {}]

\* the second call: lines 241-255 start from the persisted results again,
\* nothing of the first process's locals is left
Resume ==
    /\ rs.used /\ rs.run = 1
    /\ pc \in {"loop", "done", "raised"}
    /\ MovedLabels(organize_calls) # {}
    /\ rs' = [rs EXCEPT !.run = 2, !.fs = fs, !.moved = MovedLabels(organize_calls)]
    /\ usernames' = rs.usernames
    /\ dir_map' = EmptyMap /\ organized' = {} /\ moved' = 0
    /\ attempt_index' = EmptyMap /\ total_expected' = 0 /\ null_count' = 0
    /\ now' = 0 /\ deadline' = 0 /\ pc' = "start" /\ ret' = <<>>
    /\ enqueue_calls' = <<>> /\ organize_calls' = <<>> /\ history' = <<>>
    /\ UNCHANGED <<results, fs>>
    /\ UNCHANGED <<nm, cd, oa, od, rk, fr, cs, dl, lb, pr>>

NextResume ==
    \/ Start /\ UNCHANGED <<nm, cd, oa, od, rk, fr, cs, dl, rs, lb, pr>>
    \/ Poll /\ UNCHANGED <<nm, cd, oa, od, rk, fr, cs, dl, rs, lb, pr>>
    \/ DeadlinePassed /\ UNCHANGED <<nm, cd, oa, od, rk, fr, cs, dl, rs, lb, pr>>
    \/ Resume

SpecResume == InitResume /\ [][NextResume]_vars

(***************************************************************************)
(* models.py: Album.__str__ and Album.from_line.  SpecLabel: the label of  *)
(* an album is built and parsed back.                                      *)
(***************************************************************************)
\* Album.__str__
AlbumStr(album) ==
    IF album.year # <<>>
    THEN album.artist \o <<SP, "-", SP>> \o album.title
            \o <<SP, "(">> \o album.year \o <<")">>
    ELSE album.artist \o <<SP, "-", SP>> \o album.title

\* artist names and titles: the texts of at most MaxNameLen characters over
\* a letter, the hyphen and the space, without blanks at either end
AlbumNames ==
    {n \in UNION {[1..k -> {"x", "-", SP}] : k \in 1..MaxNameLen} :
        n[1] # SP /\ n[Len(n)] # SP}

AlbumYears == {<<>>, <<"1", "9", "9", "9">>}

InitLabel ==
    /\ WoIdle /\ nm = Idle /\ cd = Idle /\ oa = Idle /\ od = Idle /\ rk = Idle /\ fr = Idle /\ cs = Idle /\ dl = Idle /\ rs = Idle /\ pr = Idle
    /\ lb \in {[used |-> TRUE, called |-> FALSE,
                album |-> [artist |-> a, title |-> t, year |-> y],
                label |-> <<>>, parsed |-> <<>>] :
                    a \in AlbumNames, t \in AlbumNames, y \in AlbumYears}

\* organizer.py:133-140 on the label cli.py:370-442 stored: from_line, or
\* the ValueError it raises (parsed stays empty)
CallFromLine ==
    /\ lb.used /\ ~lb.called
    /\ lb' = [lb EXCEPT
                !.called = TRUE,
                !.label = AlbumStr(lb.album),
                !.parsed = IF LineMatches(AlbumStr(lb.album))
                           THEN <<from_line(AlbumStr(lb.album))>> ELSE <<>>]
    /\ UNCHANGED <<woVars, nm, cd, oa, od, rk, fr, cs, dl, rs, pr>>

NextLabel == CallFromLine

SpecLabel == InitLabel /\ [][NextLabel]_vars

(***************************************************************************)
(* SpecPair: two albums are watched, each with one directory, and the      *)
(* directories are reported succeeded one after the other, in either       *)
(* order; lines 263-275 of wait_and_organize handle each.                  *)
(***************************************************************************)
\* the locals the done loop reads and writes, two directories being watched
PairStart(a, b, f) ==
    [dir_map |-> MapPut(MapPut(EmptyMap, normalize_path(a.remote_dir),
                               <<a.label, a.remote_dir>>),
                        normalize_path(b.remote_dir), <<b.label, b.remote_dir>>),
     organized |-> {}, moved |-> 0, fs |-> f, org |-> <<>>]

\* an album and the remote directory it is downloaded from
Watched == [label : Labels, remote_dir : RemoteDirs]

InitPair ==
    /\ WoIdle /\ nm = Idle /\ cd = Idle /\ oa = Idle /\ od = Idle /\ rk = Idle /\ fr = Idle /\ cs = Idle /\ dl = Idle /\ rs = Idle /\ lb = Idle
    /\ pr \in {[used |-> TRUE, first |-> a, second |-> b,
                start |-> PairStart(a, b, t), st |-> PairStart(a, b, t),
                order |-> <<>>] :
                    a \in {w \in Watched : w.label \in {LabelA, LabelInside}},
                    b \in {w \in Watched : w.label \in {LabelB, LabelNoArtist}},
                    t \in OATrees}
    /\ normalize_path(pr.first.remote_dir) # normalize_path(pr.second.remote_dir)

\* a poll reports one more of the two directories succeeded
CompleteDirectory ==
    /\ pr.used
    /\ \E k \in DOMAIN pr.st.dir_map \ pr.st.organized :
         pr' = [pr EXCEPT !.st = DoneBody(pr.st, k, FALSE),
                          !.order = Append(@, k)]
    /\ UNCHANGED <<woVars, nm, cd, oa, od, rk, fr, cs, dl, rs, lb>>

NextPair == CompleteDirectory

SpecPair == InitPair /\ [][NextPair]_vars

(***************************************************************************)
(* Properties.                                                             *)
(***************************************************************************)
\* x in s, as Python evaluates it for the str s a name was bound to
PyIn(x, s) == StrContains(s, x)

AllIn(files, S) == \A k \in 1..Len(files) : files[k] \in S

SomeIn(files, S) == \E k \in 1..Len(files) : files[k] \in S

SlashForm(raw) == [i \in 1..Len(raw) |-> IF raw[i] = BS THEN "/" ELSE raw[i]]

SlotOf(c) ==
    CHOOSE i \in 1..Len(SlotList) :
        SlotList[i].username = c.username /\ SlotList[i].directory = c.directory

\* the listing in which the slots of the function given are as given and
\* every other directory is still in progress
Only(given) ==
    [i \in 1..NumSlots |-> IF i \in DOMAIN given THEN given[i] ELSE <<InProgress>>]

\* the alternative a result has enqueued
ActiveAlt(data) ==
    IF data.kind = "alts" THEN data.alternatives[data.selected + 1]
    ELSE [username |-> data.username, directory |-> data.directory,
          files |-> data.files]

\* ---- C1 ----------------------------------------------------------------
\* one album, two alternatives, selected = 0, the downloaded folder present
\* and the target absent, the first alternative's peer watched
RetryScenarioStart ==
    /\ Len(results) = 1
    /\ results[1].data \in {Alts(0, <<K1, K2>>), Alts(0, <<K2, K1>>)}
    /\ Len(history) >= 1
    /\ FolderA \in DOMAIN history[1].fs_before
    /\ TargetA \notin DOMAIN history[1].fs_before
    /\ results[1].data.alternatives[1].username \in history[1].usernames_before

RetryPoll1 ==
    Only(SlotOf(results[1].data.alternatives[1]) :> <<Rejected>>)

RetryPoll2 ==
    Only(SlotOf(results[1].data.alternatives[1]) :> <<Rejected>>
         @@ SlotOf(results[1].data.alternatives[2]) :> <<Succeeded>>)

\* C1: in the retry scenario (first alternative reported 'Completed, Rejected',
\* then the second reported 'Completed, Succeeded', no enqueue or move
\* failure) no exception is raised, and after the second poll the function
\* has returned moved = 1, skipped = 0 with exactly one retry enqueue call.
C1_RetryScenario ==
    (/\ pc \in {"loop", "done", "raised"}
     /\ RetryScenarioStart
     /\ history[1].listing = RetryPoll1
     /\ Len(history) <= 2
     /\ \A k \in 1..Len(history) : ~history[k].oserr /\ (history[k].raised \/ history[k].enq_ok)
     /\ Len(history) = 2 => history[2].listing = RetryPoll2)
    => /\ pc # "raised"
       /\ Len(enqueue_calls) = 1
       /\ Len(history) = 2 => pc = "done" /\ ret = <<1, 0>>

\* ---- C2 ----------------------------------------------------------------
ActiveIsLast(data) ==
    \/ data.kind = "flat"
    \/ data.kind = "alts" /\ data.selected + 1 = Len(data.alternatives)

\* C2: one album whose active alternative is the last one, its directory
\* reported 'Completed, Rejected': no retry enqueue, no exception, and the
\* function returns moved = 0, skipped = 1.
C2_ExhaustionScenario ==
    (/\ pc \in {"loop", "done", "raised"}
     /\ Len(results) = 1
     /\ ActiveIsLast(results[1].data)
     /\ Len(history) = 1
     /\ ActiveAlt(results[1].data).username \in history[1].usernames_before
     /\ history[1].listing = Only(SlotOf(ActiveAlt(results[1].data)) :> <<Rejected>>))
    => /\ pc = "done"
       /\ ret = <<0, 1>>
       /\ enqueue_calls = <<>>

\* ---- C3, C4, C5 --------------------------------------------------------
WatchedSlotsCD ==
    {i \in 1..NumSlots : /\ cd.listing[i] # NotListed
                         /\ SlotList[i].username \in cd.usernames}

TerminalStates == FileStates \ {InProgress}

\* C3: every directory of a watched peer with a non-empty file list, all of
\* it 'Completed, Succeeded', is in the succeeded set and not in the failed
\* set the caller gets.
C3_AllSucceededIsSucceeded ==
    (cd.used /\ cd.called) =>
        \A i \in WatchedSlotsCD :
            (cd.listing[i] # <<>> /\ AllIn(cd.listing[i], {Succeeded})) =>
                /\ ~cd.out.raised
                /\ PyIn(SlashForm(SlotList[i].directory), cd.out.done)
                /\ ~PyIn(SlashForm(SlotList[i].directory), cd.out.failed)

\* C4: every directory of a watched peer with no in-progress file and at
\* least one terminal file that is not Succeeded is in the failed set and not
\* in the succeeded set.
C4_AnyFailureIsFailed ==
    (cd.used /\ cd.called) =>
        \A i \in WatchedSlotsCD :
            (/\ AllIn(cd.listing[i], TerminalStates)
             /\ SomeIn(cd.listing[i], TerminalStates \ {Succeeded})) =>
                /\ ~cd.out.raised
                /\ PyIn(SlashForm(SlotList[i].directory), cd.out.failed)
                /\ ~PyIn(SlashForm(SlotList[i].directory), cd.out.done)

\* C5: a directory whose files are all 'Completed, Rejected' is terminal: it
\* is among the directories the same call reports, and it is reported failed.
C5_RejectedIsTerminalFailure ==
    (cd.used /\ cd.called) =>
        \A i \in WatchedSlotsCD :
            (cd.listing[i] # <<>> /\ AllIn(cd.listing[i], {Rejected})) =>
                /\ SlashForm(SlotList[i].directory) \in cd.completed
                /\ ~cd.out.raised
                /\ PyIn(SlashForm(SlotList[i].directory), cd.out.failed)

\* ---- C6 ----------------------------------------------------------------
LastPoll == history[Len(history)]

PendingKeys(listing, watched) ==
    {SlashForm(SlotList[i].directory) :
        i \in {i \in 1..NumSlots : /\ listing[i] # NotListed
                                   /\ SlotList[i].username \in watched
                                   /\ SomeIn(listing[i], {InProgress})}}

\* C6: a directory with a file in a non-terminal state is not finalized in
\* that poll: it is in neither set, the Organizer is not called for it, no
\* retry is enqueued for it and it is not marked handled.
C6_PendingNotFinalized ==
    (pc \in {"loop", "done", "raised"} /\ history # <<>>) =>
        \A k \in PendingKeys(LastPoll.listing, LastPoll.usernames_before) :
            /\ ~LastPoll.raised => ~PyIn(k, LastPoll.done) /\ ~PyIn(k, LastPoll.failed)
            /\ \A j \in (LastPoll.org_before + 1)..Len(organize_calls) :
                   organize_calls[j].dir_name # k
            /\ \A j \in (LastPoll.enq_before + 1)..Len(enqueue_calls) :
                   enqueue_calls[j].for_dir # k
            /\ k \in organized => k \in LastPoll.organized_before

\* ---- C7, C8, C10 -------------------------------------------------------
\* the source and target directories the documentation gives for the inputs:
\* downloads_dir / <last segment of the remote path> and
\* downloads_dir / Artist / "Title (Year)" (or Title)
ExpectedSource ==
    (DirMA :> FolderA) @@ (DirA :> FolderA) @@ (DirMAslash :> FolderA)
        @@ (DirMB :> FolderB) @@ (DirB :> FolderB)

ExpectedTarget ==
    (LabelA :> TargetA) @@ (LabelB :> TargetB) @@ (LabelInside :> TargetInside)
        @@ (LabelNoArtist :> FolderA)

Src == ExpectedSource[oa.remote_dir]

Tgt == ExpectedTarget[oa.album_str]

Parses == oa.album_str \in DOMAIN ExpectedTarget

Unchanged(c) == c.post = c.pre

\* the call moved the album: it returned true and the tree changed
MovedAlbum(c) == c.ok /\ c.post # c.pre

\* C7 as claimed: after a call that moved the album, the next call with the
\* same arguments returns true and changes nothing.
C7_SecondCallSucceeds ==
    oa.used =>
        \A i \in 2..Len(oa.calls) :
            MovedAlbum(oa.calls[i - 1]) =>
                oa.calls[i].ok /\ Unchanged(oa.calls[i])

\* C7 amended: after a call that moved the album, the next call with the same
\* arguments changes nothing and returns false (the source folder is gone);
\* a call returns true without moving exactly when source and target are the
\* same existing directory.
C7_SecondCallIsNoOp ==
    oa.used =>
        /\ \A i \in 2..Len(oa.calls) :
              MovedAlbum(oa.calls[i - 1]) =>
                  ~oa.calls[i].ok /\ Unchanged(oa.calls[i])
        /\ \A i \in 1..Len(oa.calls) :
              (oa.calls[i].ok /\ Unchanged(oa.calls[i])) <=>
                  (Parses /\ Src = Tgt /\ Src \in DOMAIN oa.calls[i].pre)

C7_Witness ==
    /\ oa.used /\ Len(oa.calls) = 2
    /\ MovedAlbum(oa.calls[1])
    /\ ~oa.calls[2].ok /\ Unchanged(oa.calls[2])

\* C8: when the target exists and is not the source, _organize_album returns
\* false and leaves the tree, target and source included, as it was.
C8_NeverOverwrites ==
    oa.used =>
        \A i \in 1..Len(oa.calls) :
            (Parses /\ Tgt \in DOMAIN oa.calls[i].pre /\ Tgt # Src) =>
                ~oa.calls[i].ok /\ Unchanged(oa.calls[i])

C8_Witness ==
    /\ oa.used /\ Len(oa.calls) >= 1
    /\ Parses /\ Tgt # Src
    /\ Tgt \in DOMAIN oa.calls[1].pre /\ Src \in DOMAIN oa.calls[1].pre
    /\ ~oa.calls[1].ok
    /\ Src \in DOMAIN oa.calls[1].post

Suffix(q, src) == SubSeq(q, Len(src) + 1, Len(q))

\* the tree post is the tree pre with the directory src, and all below it,
\* renamed to tgt, and nothing else changed but the parents of tgt created
MovedExactly(pre, post, src, tgt) ==
    /\ \A r \in DOMAIN post : ~IsPrefix(src, r)
    /\ \A q \in DOMAIN pre :
          IF IsPrefix(src, q)
          THEN /\ tgt \o Suffix(q, src) \in DOMAIN post
               /\ post[tgt \o Suffix(q, src)] = pre[q]
          ELSE q \in DOMAIN post /\ post[q] = pre[q]
    /\ \A r \in DOMAIN post \ DOMAIN pre :
          \/ IsPrefix(r, Parent(tgt))
          \/ /\ IsPrefix(tgt, r)
             /\ src \o Suffix(r, tgt) \in DOMAIN pre

\* nothing changed but the parents of tgt created
OnlyParentsCreated(pre, post, tgt) ==
    /\ \A q \in DOMAIN pre : q \in DOMAIN post /\ post[q] = pre[q]
    /\ \A r \in DOMAIN post \ DOMAIN pre : IsPrefix(r, Parent(tgt))

CanMove(c) == Parses /\ Src \in DOMAIN c.pre /\ Tgt \notin DOMAIN c.pre

C9_SameKeyEverywhere ==
    (nm.used /\ nm.built) =>
        /\ nm.map_keys = {SlashForm(nm.raw)}
        /\ nm.cd_keys = nm.map_keys
        /\ nm.cd_keys = {nm.retry_key}
        /\ nm.map_key_again = nm.retry_key

C9_Witness ==
    /\ nm.used /\ nm.built
    /\ nm.raw = <<BS, "a", BS>>
    /\ nm.map_keys = {<<"/", "a", "/">>}
    /\ nm.cd_keys = {<<"/", "a", "/">>}

\* ---- C11 ---------------------------------------------------------------
Polled == pc \in {"loop", "done", "raised"} /\ history # <<>>

\* the calls made in the last poll
NewOrganizeCalls == (LastPoll.org_before + 1)..Len(organize_calls)

NewEnqueueCalls == (LastPoll.enq_before + 1)..Len(enqueue_calls)

\* C11: handling a watched directory is one-shot: over any sequence of polls
\* no directory gets two Organizer calls, two retry enqueues, or one of each,
\* and a directory handled before a poll gets no call in that poll and stays
\* handled.
C11_OneShot ==
    /\ \A i, j \in 1..Len(organize_calls) :
          i < j => organize_calls[i].dir_name # organize_calls[j].dir_name
    /\ \A i, j \in 1..Len(enqueue_calls) :
          i < j => enqueue_calls[i].for_dir # enqueue_calls[j].for_dir
    /\ \A i \in 1..Len(organize_calls), j \in 1..Len(enqueue_calls) :
          organize_calls[i].dir_name # enqueue_calls[j].for_dir
    /\ Polled =>
          \A k \in LastPoll.organized_before :
              /\ k \in organized
              /\ \A j \in NewOrganizeCalls : organize_calls[j].dir_name # k
              /\ \A j \in NewEnqueueCalls : enqueue_calls[j].for_dir # k

\* a directory organized in the first poll is reported completed again in
\* the second, which makes no call
C11_Witness ==
    /\ Len(history) = 2 /\ ~history[2].raised
    /\ Len(organize_calls) = 1 /\ history[2].org_before = 1
    /\ enqueue_calls = <<>>
    /\ organize_calls[1].dir_name \in history[2].organized_before
    /\ PyIn(organize_calls[1].dir_name, history[2].done)

\* ---- C12 ---------------------------------------------------------------
\* the slots a listing reports with every file in a terminal state
ReportedTerminal(listing) ==
    {i \in 1..NumSlots : /\ listing[i] # NotListed
                          /\ listing[i] # <<>>
                          /\ AllIn(listing[i], TerminalStates)}

\* C12: a directory the Transfer Service reports as finished that is not in
\* the watch map at that poll is ignored: no Organizer call and no enqueue is
\* made for it and it does not enter the handled set.
C12_UnwatchedIgnored ==
    Polled =>
        \A i \in ReportedTerminal(LastPoll.listing) :
            SlashForm(SlotList[i].directory) \notin DOMAIN LastPoll.dir_map_before =>
                /\ \A j \in NewOrganizeCalls :
                       organize_calls[j].dir_name # SlashForm(SlotList[i].directory)
                /\ \A j \in NewEnqueueCalls :
                       enqueue_calls[j].for_dir # SlashForm(SlotList[i].directory)
                /\ SlashForm(SlotList[i].directory) \in organized =>
                       SlashForm(SlotList[i].directory) \in LastPoll.organized_before

\* ---- C13 ---------------------------------------------------------------
\* the watched directories not handled yet
Live == DOMAIN dir_map \ organized

\* the function returned from inside the loop, before the deadline
ReturnedEarly == pc = "done" /\ history # <<>> /\ now < deadline

\* C13: wait_and_organize returns before the deadline only when every
\* watched directory, those added by retries included, has been handled.
C13_NoEarlyExitWhilePending ==
    ReturnedEarly => Live = {}

\* ---- C14 ---------------------------------------------------------------
\* SpecLive: a run of wait_and_organize in which the clock advances and every
\* call returns, so that a step that can be taken is taken
SpecLive == Spec /\ WF_vars(Next)

Terminated == pc \in {"done", "raised"}

\* C14: wait_and_organize always terminates; once the deadline has passed the
\* next step is the return, without another poll; and the loop is never
\* about to poll again when as many directories are handled as are expected.
C14_Terminates ==
    /\ <>Terminated
    /\ [][(pc = "loop" /\ now >= deadline) =>
              (pc' = "done" /\ history' = history)]_vars
    /\ [](pc = "loop" => Cardinality(organized) < total_expected)

\* the deadline ended a run that had polled without finishing
C14_Witness ==
    /\ pc = "done" /\ now >= deadline
    /\ Len(history) = Timeout
    /\ Cardinality(organized) < total_expected

\* ---- C15 ---------------------------------------------------------------
\* two albums in the legacy shape, both peers watched, the folder of the
\* first downloaded and its target absent; at every poll the first album's
\* directory is 'Completed, Succeeded' and the second's still in progress
PartialScenario ==
    /\ Len(results) = 2
    /\ results[1].data \in {Flat(K1), Flat(K2)}
    /\ results[2].data = Flat(K3)
    /\ history # <<>>
    /\ {results[1].data.username, "u1"} \subseteq history[1].usernames_before
    /\ FolderA \in DOMAIN history[1].fs_before
    /\ TargetA \notin DOMAIN history[1].fs_before
    /\ \A k \in 1..Len(history) :
          /\ ~history[k].oserr
          /\ history[k].listing =
                Only(SlotOf(ActiveAlt(results[1].data)) :> <<Succeeded>>
                     @@ SlotOf(K3) :> <<InProgress>>)

\* C15: in the partial scenario no exception is raised, the loop is left only
\* by the deadline, and the function then returns moved = 1, skipped = 1 with
\* the first album in its target directory.
C15_TimeoutReturnsPartial ==
    (pc \in {"loop", "done", "raised"} /\ PartialScenario) =>
        /\ pc # "raised"
        /\ pc = "done" =>
              /\ now >= deadline
              /\ ret = <<1, 1>>
              /\ TargetA \in DOMAIN fs

\* ---- C16 ---------------------------------------------------------------
NullAlbums == {i \in 1..Len(results) : results[i].data = Null}

NullLabels == {results[i].label : i \in NullAlbums}

NothingWatchable == \A i \in 1..Len(results) : ActiveRemoteDir(results[i].data) = <<>>

\* C16: an album whose outcome is null is never watched and never given to
\* the Organizer or to a retry; the skipped count returned is the number of
\* expected directories not moved plus one for each null album; and when no
\* album has a watchable directory the function returns (0, number of null
\* albums) without a poll.
C16_NullAlbumsSkipped ==
    /\ \A k \in DOMAIN dir_map : dir_map[k][1] \notin NullLabels
    /\ \A j \in 1..Len(organize_calls) : organize_calls[j].album_str \notin NullLabels
    /\ \A j \in 1..Len(enqueue_calls) : enqueue_calls[j].album_str \notin NullLabels
    /\ pc = "done" =>
          /\ ret[2] = (total_expected - ret[1]) + Cardinality(NullAlbums)
          /\ ret[1] = Cardinality({j \in 1..Len(organize_calls) : organize_calls[j].ok})
    /\ (pc \in {"loop", "done", "raised"} /\ NothingWatchable) =>
          /\ pc = "done"
          /\ ret = <<0, Cardinality(NullAlbums)>>
          /\ history = <<>>

\* a null album next to a watched one, after a run that polled and returned
C16_Witness ==
    /\ pc = "done" /\ history # <<>>
    /\ Len(results) = 2 /\ results[1].data = Null
    /\ DOMAIN dir_map # {}
    /\ ret[2] = total_expected - ret[1] + 1

\* ---- C17 ---------------------------------------------------------------
\* the slots of the last poll that hold a failed watched directory, not
\* handled before, whose album has a next alternative
FailedWithNext ==
    {i \in 1..NumSlots :
        /\ LastPoll.listing[i] # NotListed /\ LastPoll.listing[i] # <<>>
        /\ AllIn(LastPoll.listing[i], {Rejected})
        /\ SlotList[i].username \in LastPoll.usernames_before
        /\ SlashForm(SlotList[i].directory) \in DOMAIN LastPoll.dir_map_before
        /\ SlashForm(SlotList[i].directory) \notin LastPoll.organized_before
        /\ LET album == LastPoll.dir_map_before[SlashForm(SlotList[i].directory)][1]
               data == ResultsGet(results, album)
           IN  /\ data.kind = "alts"
               /\ AttemptGet(LastPoll.attempt_before, album) + 1 < Len(data.alternatives)}

AlbumOfSlot(i) == LastPoll.dir_map_before[SlashForm(SlotList[i].directory)][1]

NextIndexOfSlot(i) == AttemptGet(LastPoll.attempt_before, AlbumOfSlot(i)) + 1

NextAltOfSlot(i) ==
    ResultsGet(results, AlbumOfSlot(i)).alternatives[NextIndexOfSlot(i) + 1]

\* C17: when a watched directory has failed and its album has a next
\* alternative, the poll enqueues that alternative (if the enqueue succeeds:)
\* the album's index is one more, the watch map maps the alternative's
\* normalized path to the album, its peer is watched, one more completion is
\* expected, and the failed directory is handled.
C17_RetryNextAlternative ==
    (Polled /\ (LastPoll.raised \/ LastPoll.enq_ok)) =>
        \A i \in FailedWithNext :
            /\ ~LastPoll.raised
            /\ \E j \in NewEnqueueCalls :
                  /\ enqueue_calls[j].for_dir = SlashForm(SlotList[i].directory)
                  /\ enqueue_calls[j].album_str = AlbumOfSlot(i)
                  /\ enqueue_calls[j].username = NextAltOfSlot(i).username
                  /\ enqueue_calls[j].files = NextAltOfSlot(i).files
            /\ attempt_index[AlbumOfSlot(i)] = NextIndexOfSlot(i)
            /\ SlashForm(NextAltOfSlot(i).directory) \in DOMAIN dir_map
            /\ dir_map[SlashForm(NextAltOfSlot(i).directory)]
                  = <<AlbumOfSlot(i), NextAltOfSlot(i).directory>>
            /\ NextAltOfSlot(i).username \in usernames
            /\ total_expected >= LastPoll.expected_before + 1
            /\ SlashForm(SlotList[i].directory) \in organized

\* ---- C18 ---------------------------------------------------------------
\* the albums whose outcome has alternatives and a selected index into them
IndexedAlbums ==
    {i \in 1..Len(results) : /\ results[i].data.kind = "alts"
                              /\ results[i].data.selected < Len(results[i].data.alternatives)}

RetriesOf(label, calls) ==
    Cardinality({j \in 1..Len(calls) : calls[j].album_str = label})

\* the legacy shape is a single-alternative outcome with selected = 0: its
\* index stays 0 and no retry is made for it
LegacyIndexFixed ==
    \A i \in 1..Len(results) :
        results[i].data.kind = "flat" =>
            /\ AttemptGet(attempt_index, results[i].label) = 0
            /\ RetriesOf(results[i].label, enqueue_calls) = 0

\* C18: for every album the active index starts at selected, stays below
\* len(alternatives), and is selected plus the number of retry enqueue calls
\* made for the album: it never decreases and grows by one with each retry,
\* so there are at most len(alternatives) - 1 - selected retries; over one
\* poll it grows by the number of retries the poll attempted.
C18_ActiveIndexMonotone ==
    (pc # "start") =>
        /\ LegacyIndexFixed
        /\ \A i \in IndexedAlbums :
              /\ results[i].label \in DOMAIN attempt_index
              /\ attempt_index[results[i].label] >= results[i].data.selected
              /\ attempt_index[results[i].label] < Len(results[i].data.alternatives)
              /\ attempt_index[results[i].label]
                    = results[i].data.selected + RetriesOf(results[i].label, enqueue_calls)
              /\ RetriesOf(results[i].label, enqueue_calls)
                    <= Len(results[i].data.alternatives) - 1 - results[i].data.selected
              /\ Polled =>
                    attempt_index[results[i].label]
                      = LastPoll.attempt_before[results[i].label]
                        + (RetriesOf(results[i].label, enqueue_calls)
                           - RetriesOf(results[i].label,
                                       SubSeq(enqueue_calls, 1, LastPoll.enq_before)))

\* a retry advanced the index of the first album from 0 to 1
C18_Witness ==
    /\ Polled /\ ~LastPoll.raised
    /\ results[1].data.kind = "alts" /\ results[1].data.selected = 0
    /\ Len(results[1].data.alternatives) = 2
    /\ LastPoll.attempt_before[results[1].label] = 0
    /\ attempt_index[results[1].label] = 1
    /\ RetriesOf(results[1].label, enqueue_calls) = 1

\* ---- C19 ---------------------------------------------------------------
\* the live directories of an album: watched for it and not handled
LiveOf(label) == {k \in Live : dir_map[k][1] = label}

\* C19: between polls every album has at most one live directory, and a
\* retry that was enqueued has made the failed directory handled.
C19_OneLivePerAlbum ==
    pc \in {"loop", "done"} =>
        /\ \A i \in 1..Len(results) : Cardinality(LiveOf(results[i].label)) <= 1
        /\ \A j \in 1..Len(enqueue_calls) : enqueue_calls[j].for_dir \in organized

\* after a retry the new candidate's directory is the album's live one and
\* the failed directory is handled
C19_Witness ==
    /\ pc = "loop" /\ Len(enqueue_calls) = 1 /\ enqueue_calls[1].ok
    /\ enqueue_calls[1].for_dir \in organized
    /\ enqueue_calls[1].for_dir \in DOMAIN dir_map
    /\ Cardinality(LiveOf(enqueue_calls[1].album_str)) = 1
    /\ Cardinality({k \in DOMAIN dir_map :
                       dir_map[k][1] = enqueue_calls[1].album_str}) = 2

\* ---- C20 ---------------------------------------------------------------
\* C20: when a watched directory has failed, its album has a next alternative
\* and the Transfer Service refuses the enqueue, no exception escapes, the
\* enqueue was attempted once, the failed directory is handled, the
\* candidate's directory is not added to the watch map, no further completion
\* is expected, and when the function returns the album is in skipped.
C20_EnqueueFailureNonFatal ==
    (Polled /\ (LastPoll.raised \/ ~LastPoll.enq_ok)) =>
        \A i \in FailedWithNext :
            /\ ~LastPoll.raised
            /\ \E j \in NewEnqueueCalls :
                  /\ enqueue_calls[j].for_dir = SlashForm(SlotList[i].directory)
                  /\ enqueue_calls[j].username = NextAltOfSlot(i).username
                  /\ ~enqueue_calls[j].ok
            /\ SlashForm(SlotList[i].directory) \in organized
            /\ SlashForm(NextAltOfSlot(i).directory) \in DOMAIN dir_map =>
                  SlashForm(NextAltOfSlot(i).directory) \in DOMAIN LastPoll.dir_map_before
            /\ total_expected = LastPoll.expected_before
            /\ pc = "done" => ret[2] >= 1

\* ---- C21 ---------------------------------------------------------------
\* the three failure cases of a call: no source folder, a label that is not
\* an album, a target that exists and is not the source itself
SourceMissing(c) == Src \notin DOMAIN c.pre

TargetConflict(c) == Parses /\ Tgt \in DOMAIN c.pre /\ Tgt # Src

\* C21: in each failure case (the source folder does not exist, the label
\* cannot be parsed, the target already exists) _organize_album returns false
\* and the tree after the call is the tree before it: nothing created, moved
\* or removed.
C21_FailuresChangeNothing ==
    oa.used =>
        \A i \in 1..Len(oa.calls) :
            (SourceMissing(oa.calls[i]) \/ ~Parses \/ TargetConflict(oa.calls[i])) =>
                /\ ~oa.calls[i].ok
                /\ oa.calls[i].post = oa.calls[i].pre
                /\ oa.fs = oa.calls[Len(oa.calls)].post

\* the label is not an album while the source folder is there
C21_Witness ==
    /\ oa.used /\ Len(oa.calls) >= 1
    /\ ~Parses /\ ~SourceMissing(oa.calls[1])
    /\ ~oa.calls[1].ok /\ oa.calls[1].post = oa.calls[1].pre

\* ---- C22 ---------------------------------------------------------------
\* wait_and_organize as a function of its arguments and of what each poll is
\* given (the entries of a history): the locals, the position and the
\* returned pair
RunStart(res, usr, tree) ==
    LET dm == build_dir_to_album_map(res)
    IN  [st |-> [dir_map |-> dm, organized |-> {}, moved |-> 0,
                 attempt_index |-> InitialAttemptIndex(res, 1, EmptyMap),
                 total_expected |-> Cardinality(DOMAIN dm),
                 usernames |-> usr, fs |-> tree, enq |-> <<>>, org |-> <<>>],
         pc |-> IF Cardinality(DOMAIN dm) = 0 THEN "done" ELSE "loop",
         ret |-> IF Cardinality(DOMAIN dm) = 0 THEN <<0, NullCount(res)>> ELSE <<>>,
         now |-> 0,
         deadline |-> IF Cardinality(DOMAIN dm) = 0 THEN 0 ELSE Timeout]

\* the pair the unpacking binds in this process: the order the entry records
\* when the set is the same, any order otherwise
RunUnpack(completed, e) ==
    IF Cardinality(completed) # 2 THEN [raised |-> TRUE, done |-> <<>>, failed |-> <<>>]
    ELSE IF ~e.raised /\ {e.done, e.failed} = completed
    THEN [raised |-> FALSE, done |-> e.done, failed |-> e.failed]
    ELSE CHOOSE u \in UnpackPair(completed) : TRUE

RunAfterLoops(run, res, u, e) ==
    ForNewlyFailed(ForNewlyDone(run.st, u.done, 1, e.oserr),
                   res, u.failed, 1, e.enq_ok)

RunReturn(run, res, st) ==
    [run EXCEPT !.st = st, !.pc = "done",
                !.ret = <<st.moved, st.total_expected - st.moved + NullCount(res)>>]

RunPoll(run, res, e) ==
    IF run.pc # "loop" \/ run.now >= run.deadline THEN run
    ELSE LET u == RunUnpack(completed_directories(TransfersOf(e.listing),
                                                  run.st.usernames), e)
             st == RunAfterLoops(run, res, u, e)
         IN  IF u.raised THEN [run EXCEPT !.pc = "raised"]
             ELSE IF AllHandled(st) THEN RunReturn(run, res, st)
             ELSE [run EXCEPT !.st = st, !.now = @ + 1]

RECURSIVE RunThrough(_, _, _, _)
RunThrough(run, res, hist, k) ==
    IF k > Len(hist) THEN run
    ELSE RunThrough(RunPoll(run, res, hist[k]), res, hist, k + 1)

\* the while condition fails: the function returns what it has
RunDeadline(run, res) ==
    IF run.pc = "loop" /\ run.now >= run.deadline
    THEN RunReturn(run, res, run.st)
    ELSE run

\* the same result set with every legacy flat outcome written in the new
\* shape: selected = 0 and the candidate as the only alternative
AsAlternatives(res) ==
    [i \in 1..Len(res) |->
        IF res[i].data.kind = "flat"
        THEN [label |-> res[i].label,
              data |-> Alts(0, <<[username |-> res[i].data.username,
                                  directory |-> res[i].data.directory,
                                  files |-> res[i].data.files]>>)]
        ELSE res[i]]

HasLegacy(res) == \E i \in 1..Len(res) : res[i].data.kind = "flat"

LegacyLabels == {results[i].label : i \in {i \in 1..Len(results) : results[i].data.kind = "flat"}}

FirstUsernames == IF history = <<>> THEN usernames ELSE history[1].usernames_before

FirstTree == IF history = <<>> THEN fs ELSE history[1].fs_before

\* the run on the new-shape result set, given the polls of this run
TwinNow ==
    RunThrough(RunStart(AsAlternatives(results), FirstUsernames, FirstTree),
               AsAlternatives(results), history, 1)

Twin == IF pc = "done" THEN RunDeadline(TwinNow, AsAlternatives(results)) ELSE TwinNow

\* runs on a result set with a legacy outcome, both peers watched, the
\* downloaded folders in place and no target yet
InitEq ==
    /\ Init
    /\ HasLegacy(results)
    /\ usernames = {"u1", "u2"}
    /\ fs = TreeOf({FolderA, FolderB})

SpecEq == InitEq /\ [][Next]_vars

\* C22: a run on a result set with legacy flat outcomes and the run on the
\* same set with each of them written {selected: 0, alternatives: [candidate]}
\* are, after the same polls, at the same point with the same watch map, the
\* same Organizer and enqueue calls, the same tree and the same returned
\* (moved, skipped); and a legacy album is never retried.
C22_LegacyIsSingleAlternative ==
    pc # "start" =>
        LET twin == Twin
        IN  /\ twin.pc = pc
            /\ twin.ret = ret
            /\ twin.st = Locals
            /\ \A k \in 1..Len(enqueue_calls) :
                   enqueue_calls[k].album_str \notin LegacyLabels

\* a legacy album's directory was handed to the Organizer and the run returned
C22_Witness ==
    /\ pc = "done" /\ history # <<>>
    /\ \E k \in 1..Len(organize_calls) : organize_calls[k].album_str \in LegacyLabels
    /\ \E i \in 1..Len(results) : results[i].data.kind = "flat"
    /\ Twin.ret = ret

\* ---- C23 ---------------------------------------------------------------
SelectedValid(data) ==
    data.kind = "alts" => data.selected < Len(data.alternatives)

\* the result set with every new-shape outcome replaced by the legacy flat
\* outcome equal to its selected alternative
AsLegacy(res) ==
    [i \in 1..Len(res) |->
        IF res[i].data.kind = "alts"
        THEN [label |-> res[i].label,
              data |-> Flat(res[i].data.alternatives[res[i].data.selected + 1])]
        ELSE res[i]]

BatchOnLegacy == organize_downloads(AsLegacy(od.results), od.pre, od.oserrs)

\* C23: organize_downloads leaves the same tree and returns the same
\* (moved, skipped) for a result set with new-shape outcomes as for the set in
\* which each of them is the legacy flat outcome of its selected alternative.
C23_BatchHandlesBothShapes ==
    (od.used /\ od.called /\ \A i \in 1..Len(od.results) : SelectedValid(od.results[i].data)) =>
        /\ od.post = BatchOnLegacy.fs
        /\ od.moved = BatchOnLegacy.moved
        /\ od.skipped = BatchOnLegacy.skipped

\* ---- C24 ---------------------------------------------------------------
\* the albums organize_downloads has a directory for, in the order of the set
WithDirectory(res) ==
    SelectSeq([i \in 1..Len(res) |-> i],
              LAMBDA i : res[i].data.kind = "flat" /\ res[i].data.directory # <<>>)

CountOk(calls) == Cardinality({k \in 1..Len(calls) : calls[k].ok})

C25_EmptyDirectoryNotComplete ==
    (cd.used /\ cd.called) =>
        \A i \in WatchedSlotsCD :
            cd.listing[i] = <<>> =>
                /\ ~cd.out.raised
                /\ ~PyIn(SlashForm(SlotList[i].directory), cd.out.done)
                /\ ~PyIn(SlashForm(SlotList[i].directory), cd.out.failed)

\* ---- C26 ---------------------------------------------------------------
\* the keys of the directories listed for the peers in the set watched
KeysOf(listing, watched) ==
    {SlashForm(SlotList[i].directory) :
        i \in {i \in 1..NumSlots : SlotList[i].username \in watched}}

\* the peers the retries of poll k added to the watched set
AddedBy(k) ==
    {enqueue_calls[j].username :
        j \in {j \in (history[k].enq_before + 1)..Len(enqueue_calls) :
                  /\ enqueue_calls[j].ok
                  /\ k < Len(history) => j <= history[k + 1].enq_before}}

\* C26: in every poll the caller gets its two sets, a directory that only
\* peers outside the watched set have is in neither, whatever its files; and
\* the finished directories of a peer the poll before added by a retry are in
\* one of the two.
C26_OnlyWatchedPeersClassified ==
    \A k \in 1..Len(history) :
        /\ ~history[k].raised
        /\ \A key \in KeysOf(history[k].listing, {"u1", "u2", "u3"})
                          \ KeysOf(history[k].listing, history[k].usernames_before) :
               ~PyIn(key, history[k].done) /\ ~PyIn(key, history[k].failed)
        /\ k > 1 =>
              \A i \in 1..NumSlots :
                  (/\ SlotList[i].username \in AddedBy(k - 1)
                   /\ AllIn(history[k].listing[i], TerminalStates)) =>
                      \/ PyIn(SlashForm(SlotList[i].directory), history[k].done)
                      \/ PyIn(SlashForm(SlotList[i].directory), history[k].failed)

\* ---- C27 ---------------------------------------------------------------
\* the key the documentation gives: the place of the format in the
\* preference order (its length when absent), 0 for a free slot and 1
\* otherwise, the bitrate and the upload speed negated, the queue length
PlaceOf(fmt, order) ==
    IF \E i \in 1..Len(order) : order[i] = fmt
    THEN (CHOOSE i \in 1..Len(order) : order[i] = fmt /\ \A j \in 1..(i - 1) : order[j] # fmt) - 1
    ELSE Len(order)

RankKey(r) ==
    <<PlaceOf(r.format, rk.preferred_formats),
      IF r.has_free_slot THEN 0 ELSE 1,
      0 - r.bitrate, 0 - r.upload_speed, r.queue_length>>

\* the lexicographic order of the keys, component by component
KeyBefore(a, b) ==
    \/ a[1] < b[1]
    \/ a[1] = b[1] /\ a[2] < b[2]
    \/ a[1] = b[1] /\ a[2] = b[2] /\ a[3] < b[3]
    \/ a[1] = b[1] /\ a[2] = b[2] /\ a[3] = b[3] /\ a[4] < b[4]
    \/ a[1] = b[1] /\ a[2] = b[2] /\ a[3] = b[3] /\ a[4] = b[4] /\ a[5] < b[5]

Rearrangements(n) == {p \in [1..n -> 1..n] : \A i, j \in 1..n : i # j => p[i] # p[j]}

\* C27: the list returned is the input rearranged (ranked[i] is the input at
\* p[i] for a permutation p), no element comes before one with a smaller
\* key, elements with equal keys are in their input order; and with the
\* order [flac, mp3] the FLAC/1411/free candidate comes before the
\* MP3/320/queued one.
C27_RankIsStableSortByKey ==
    (rk.used /\ rk.called) =>
        /\ Len(rk.ranked) = Len(rk.results)
        /\ \E p \in Rearrangements(Len(rk.results)) :
              /\ \A i \in 1..Len(rk.ranked) : rk.ranked[i] = rk.results[p[i]]
              /\ \A i, j \in 1..Len(rk.ranked) :
                    i < j =>
                        /\ ~KeyBefore(RankKey(rk.ranked[j]), RankKey(rk.ranked[i]))
                        /\ RankKey(rk.ranked[i]) = RankKey(rk.ranked[j]) => p[i] < p[j]
        /\ (rk.preferred_formats = <<"flac", "mp3">>
               /\ rk.results \in {<<FlacFree, Mp3Queued>>, <<Mp3Queued, FlacFree>>}) =>
                 rk.ranked = <<FlacFree, Mp3Queued>>

\* two candidates with the same key keep their order behind a better one
C27_Witness ==
    /\ rk.used /\ rk.called
    /\ rk.preferred_formats = <<"flac", "mp3">>
    /\ rk.results = <<Mp3FreeTwin, Mp3Free, FlacFree>>
    /\ rk.ranked = <<FlacFree, Mp3FreeTwin, Mp3Free>>

\* ---- C28 ---------------------------------------------------------------
\* the normalized extension of each file: the "extension" field, or the
\* suffix of the filename when the field is empty, lower-cased, no dot
NormalizedExt ==
    (FileFlac :> <<"f", "l", "a", "c">>) @@ (FileFlacUpper :> <<"f", "l", "a", "c">>) @@ (FileMp3Low :> <<"m", "p", "3">>)
        @@ (FileMp3High :> <<"m", "p", "3">>) @@ (FileJpg :> <<"j", "p", "g">>) @@ (FileNoExt :> <<>>)

\* the lower-cased remote directory of each file
LowerDirectory ==
    (FileFlac :> <<"m", "/", "a", "b", "c">>) @@ (FileFlacUpper :> <<"m", "/", "a", "b", "c">>) @@ (FileMp3Low :> <<"m", "/", "a", "b", "c">>)
        @@ (FileNoExt :> <<"m", "/", "a", "b", "c">>) @@ (FileMp3High :> <<"x", "y", "z", "/", "a", "b", "c", "d">>) @@ (FileJpg :> <<"x", "y", "z", "/", "a", "b", "c", "d">>)

\* the significant words of each title: longer than 2 and no stop word
SignificantWords ==
    (TitleAbc :> {<<"a", "b", "c">>}) @@ (TitleTwo :> {<<"a", "b", "c">>, <<"x", "y", "z">>}) @@ (TitleStop :> {})

Lossless == {<<"f", "l", "a", "c">>, <<"w", "a", "v">>, <<"a", "l", "a", "c">>, <<"a", "p", "e">>, <<"w", "v">>}

Preferred == {fr.settings.preferred_formats[k] : k \in 1..Len(fr.settings.preferred_formats)}

Qualifying(resp) == SelectSeq(resp.files, LAMBDA f : NormalizedExt[f] \in Preferred)

Occurrences(q, e) == Cardinality({i \in 1..Len(q) : NormalizedExt[q[i]] = e})

FirstSeen(q, e) == CHOOSE i \in 1..Len(q) :
                      NormalizedExt[q[i]] = e /\ \A j \in 1..(i - 1) : NormalizedExt[q[j]] # e

\* e is the most frequent extension of q, a tie going to the one seen first
IsDominant(q, e) ==
    /\ \E i \in 1..Len(q) : NormalizedExt[q[i]] = e
    /\ \A j \in 1..Len(q) :
          NormalizedExt[q[j]] # e =>
              \/ Occurrences(q, NormalizedExt[q[j]]) < Occurrences(q, e)
              \/ /\ Occurrences(q, NormalizedExt[q[j]]) = Occurrences(q, e)
                 /\ FirstSeen(q, e) < FirstSeen(q, NormalizedExt[q[j]])

Reported(q) == SelectSeq([i \in 1..Len(q) |-> q[i].bitRate], LAMBDA b : b > 0)

\* the mean of the reported bitrates (0 when none is reported) is below m
AverageBelow(q, m) ==
    IF Reported(q) = <<>> THEN 0 < m
    ELSE SumRates(Reported(q)) < m * Len(Reported(q))

LowQuality(q) ==
    /\ \E e \in Preferred \ Lossless : IsDominant(q, e)
    /\ AverageBelow(q, fr.settings.min_bitrate)

Relevant(q) ==
    fr.album.given =>
        \A w \in SignificantWords[fr.album.title] : StrContains(LowerDirectory[q[1]], w)

PassesQuality(resp) ==
    Len(Qualifying(resp)) >= fr.settings.min_files /\ ~LowQuality(Qualifying(resp))

AcceptedOnes ==
    SelectSeq(fr.responses, LAMBDA r : \E k \in 1..Len(fr.out) : fr.out[k].username = r.username)

\* C28: a response is accepted exactly when at least min_files of its files
\* qualify, it is not the case that their dominant format is lossy while
\* their average bitrate is below min_bitrate, and the relevance filter
\* passes; the candidates come in the order of the responses, each holds the
\* qualifying files only, and its format is their most frequent extension,
\* the one seen first on a tie.
C28_FilterAcceptsExactly ==
    (fr.used /\ fr.called) =>
        /\ \A i \in 1..Len(fr.responses) :
              (\E k \in 1..Len(fr.out) : fr.out[k].username = fr.responses[i].username)
                  <=> (PassesQuality(fr.responses[i]) /\ Relevant(Qualifying(fr.responses[i])))
        /\ Len(fr.out) = Len(AcceptedOnes)
        /\ \A k \in 1..Len(fr.out) :
              /\ fr.out[k].username = AcceptedOnes[k].username
              /\ fr.out[k].files = Qualifying(AcceptedOnes[k])
              /\ IsDominant(Qualifying(AcceptedOnes[k]), fr.out[k].format)

\* one MP3 and one FLAC file qualify, the JPG is dropped, MP3 was seen first
C28_Witness ==
    /\ fr.used /\ fr.called
    /\ fr.responses = <<Response("u1", <<FileMp3High, FileJpg, FileFlac>>)>>
    /\ fr.settings.min_files = 2
    /\ Len(fr.out) = 1
    /\ fr.out[1].files = <<FileMp3High, FileFlac>>
    /\ fr.out[1].format = <<"m", "p", "3">>

\* ---- C29 ---------------------------------------------------------------
\* C29: of the responses that pass the format and bitrate filters, with an
\* album one is accepted exactly when every significant word of the title is
\* a substring of its lower-cased directory (so always when the title has no
\* significant word), and without an album every one is accepted.
C29_RelevanceFilter ==
    (fr.used /\ fr.called) =>
        \A i \in 1..Len(fr.responses) :
            PassesQuality(fr.responses[i]) =>
                LET accepted == \E k \in 1..Len(fr.out) :
                                    fr.out[k].username = fr.responses[i].username
                    dir == LowerDirectory[Qualifying(fr.responses[i])[1]]
                IN  /\ ~fr.album.given => accepted
                    /\ fr.album.given =>
                          (accepted <=> \A w \in SignificantWords[fr.album.title] :
                                            StrContains(dir, w))
                    /\ (fr.album.given /\ SignificantWords[fr.album.title] = {}) => accepted

\* the first response lies in a directory with both significant words and
\* is accepted; the one behind it, lossless, in a directory with one of them
\* only, is rejected
C29_Witness ==
    /\ fr.used /\ fr.called
    /\ fr.album = AlbumTitled(TitleTwo)
    /\ fr.responses = <<Response("u1", <<FileMp3High>>),
                        Response("u2", <<FileFlac, FileFlac>>)>>
    /\ Len(fr.out) = 1
    /\ fr.out[1].username = "u1"

\* ---- C30 ---------------------------------------------------------------
\* the alternatives of the outcome written, and its selected index
Stored == cs.outcome.alternatives

\* C30: an outcome that is not null holds at most 3 alternatives, each the
\* written form of a ranked candidate, and 0 <= selected < len(alternatives);
\* in auto mode selected = 0 and the alternatives are the first three of the
\* ranked list in rank order; and the download step makes exactly one enqueue
\* call, for the username and files of alternatives[selected].
C30_OutcomeWellFormed ==
    (cs.used /\ cs.pc # "search" /\ cs.outcome.kind # "null") =>
        /\ Len(Stored) <= 3
        /\ \A k \in 1..Len(Stored) :
              \E i \in 1..Len(cs.ranked) : Stored[k] = Written(cs.ranked[i])
        /\ 0 <= cs.outcome.selected /\ cs.outcome.selected < Len(Stored)
        /\ cs.auto =>
              /\ cs.outcome.selected = 0
              /\ Len(Stored) = (IF Len(cs.ranked) < 3 THEN Len(cs.ranked) ELSE 3)
              /\ \A k \in 1..Len(Stored) : Stored[k] = Written(cs.ranked[k])
        /\ cs.pc = "queued" =>
              /\ Len(cs.enq) = 1
              /\ cs.enq[1].username = Stored[cs.outcome.selected + 1].username
              /\ cs.enq[1].files = Stored[cs.outcome.selected + 1].files

\* auto mode with more than three candidates found: the best three are
\* stored and the first of them is enqueued
C30_Witness ==
    /\ cs.used /\ cs.pc = "queued" /\ cs.auto
    /\ Len(cs.ranked) > 3
    /\ cs.outcome.kind = "alts" /\ Len(Stored) = 3
    /\ Len(cs.enq) = 1 /\ cs.enq[1].username = cs.ranked[1].username

\* ---- C31 ---------------------------------------------------------------
NonNull(res) == {i \in 1..Len(res) : res[i].data.kind # "null"}

OkCalls(calls) == {j \in 1..Len(calls) : calls[j].ok}

\* C31: _cmd_download survives a refused enqueue: every album with an
\* outcome gets its enqueue call, in the order of the file, whatever happened
\* to the albums before it; skipped counts the null albums and the refused
\* enqueues, queued the accepted ones; the watched peers are exactly the
\* peers of the accepted enqueues; and the run returns without calling
\* wait_and_organize exactly when no enqueue was accepted.
C31_EnqueueFailureSkipsAlbum ==
    (dl.used /\ dl.pc # "queueing") =>
        /\ Len(dl.enq) = Cardinality(NonNull(dl.results))
        /\ \A j, k \in 1..Len(dl.enq) :
              j < k => \E a, b \in NonNull(dl.results) :
                          /\ a < b
                          /\ dl.enq[j].album_str = dl.results[a].label
                          /\ dl.enq[k].album_str = dl.results[b].label
        /\ \A j \in 1..Len(dl.enq) :
              \E a \in NonNull(dl.results) :
                  /\ dl.enq[j].album_str = dl.results[a].label
                  /\ dl.enq[j].username = ActiveAlt(dl.results[a].data).username
                  /\ dl.enq[j].files = ActiveAlt(dl.results[a].data).files
        /\ dl.queued = Cardinality(OkCalls(dl.enq))
        /\ dl.skipped = Len(dl.results) - Cardinality(OkCalls(dl.enq))
        /\ dl.usernames = {dl.enq[j].username : j \in OkCalls(dl.enq)}
        /\ dl.pc = "returned" <=> OkCalls(dl.enq) = {}
        /\ dl.pc = "returned" => pc = "idle" /\ history = <<>>
        /\ dl.pc = "waiting" =>
              /\ pc # "idle"
              /\ results = dl.results
              /\ history = <<>> => usernames = dl.usernames

\* the first album's enqueue was refused, the second album was queued from
\* another peer, and the wait has started watching that peer only
C31_Witness ==
    /\ dl.used /\ dl.pc = "waiting" /\ Len(dl.enq) = 2
    /\ ~dl.enq[1].ok /\ dl.enq[2].ok
    /\ dl.enq[1].username = "u2" /\ dl.usernames = {"u1"}
    /\ dl.skipped = 1 /\ dl.queued = 1
    /\ pc = "loop" /\ usernames = {"u1"}

\* ---- C32 ---------------------------------------------------------------
\* C32: from the call of wait_and_organize to its return the results are the
\* records it was given: no album's alternatives list (length, order,
\* entries) or selected value is changed, whatever the polls report; the
\* progress of the retries is in attempt_index only.
C32_OutcomesNotModified ==
    (dl.used /\ dl.pc = "waiting") =>
        /\ results = dl.results
        /\ \A i \in 1..Len(results) :
              results[i].data.kind = "alts" =>
                  /\ results[i].data.alternatives = dl.results[i].data.alternatives
                  /\ results[i].data.selected = dl.results[i].data.selected

\* the run has returned after a retry that advanced the attempt index of the
\* first album past its stored selected value
C32_Witness ==
    /\ dl.used /\ dl.pc = "waiting" /\ pc = "done"
    /\ results[1].data.kind = "alts"
    /\ Len(enqueue_calls) = 1
    /\ attempt_index[results[1].label] = results[1].data.selected + 1
    /\ results[1].data = dl.results[1].data

\* ---- C33 ---------------------------------------------------------------
\* the directories of the album's target tree
TargetTree(f, label) == {q \in DOMAIN f : IsPrefix(TargetOfLabel[label], q)}

\* C33: in a second run over the same results, an album the first run moved
\* is a no-op: every Organizer call for it returns false, its target tree
\* stays as the first run left it, and as long as the Organizer was called
\* for such albums only the whole tree is as the first run left it.
C33_ResumeLeavesMovedAlbums ==
    (rs.used /\ rs.run = 2) =>
        /\ \A j \in 1..Len(organize_calls) :
              organize_calls[j].album_str \in rs.moved => ~organize_calls[j].ok
        /\ \A l \in rs.moved :
              \A q \in TargetTree(rs.fs, l) : q \in DOMAIN fs /\ fs[q] = rs.fs[q]
        /\ (\A j \in 1..Len(organize_calls) : organize_calls[j].album_str \in rs.moved)
              => fs = rs.fs

\* the first run moved the first album; the second run was told again that
\* its directory is complete, called the Organizer for it and returned
C33_Witness ==
    /\ rs.used /\ rs.run = 2 /\ pc = "done"
    /\ rs.moved = {LabelA}
    /\ TargetA \in DOMAIN rs.fs /\ FolderA \notin DOMAIN rs.fs
    /\ Len(organize_calls) = 1
    /\ organize_calls[1].album_str = LabelA /\ ~organize_calls[1].ok
    /\ fs = rs.fs

\* ---- C34 ---------------------------------------------------------------
\* every album is null or has an active alternative with a directory
WellFormed(res) ==
    \A i \in 1..Len(res) :
        res[i].data = Null \/ ActiveRemoteDir(res[i].data) # <<>>

\* C34: when wait_and_organize returns, by completion or by the deadline and
\* whatever the polls reported, moved + skipped is the number of albums in
\* the results, and moved is the number of albums the Organizer moved.
C34_CountsEveryAlbumOnce ==
    (pc = "done" /\ WellFormed(results)) =>
        /\ ret[1] + ret[2] = Len(results)
        /\ ret[1] = Cardinality(MovedLabels(organize_calls))

\* ---- C35 ---------------------------------------------------------------
\* the first album has an alternative after the selected one
HasFallback ==
    /\ results[1].data.kind = "alts"
    /\ results[1].data.selected + 1 < Len(results[1].data.alternatives)

FirstActive == results[1].data.alternatives[results[1].data.selected + 1]

FirstFallback == results[1].data.alternatives[results[1].data.selected + 2]

\* two polls: in the first the active alternative's directory has failed and
\* the retry enqueue is accepted, in the second the fallback's directory is
\* 'Completed, Succeeded'; the downloaded folder is there, the target is not
FallbackScenario ==
    /\ HasFallback
    /\ Len(history) >= 1
    /\ FirstActive.username \in history[1].usernames_before
    /\ history[1].listing[SlotOf(FirstActive)] = <<Rejected>>
    /\ history[1].listing[SlotOf(FirstFallback)] # <<Succeeded>>
    /\ history[1].raised \/ history[1].enq_ok
    /\ FolderA \in DOMAIN history[1].fs_before
    /\ TargetA \notin DOMAIN history[1].fs_before
    /\ Len(history) >= 2 =>
          /\ history[2].listing[SlotOf(FirstFallback)] = <<Succeeded>>
          /\ ~history[2].oserr

\* C35: in the fallback scenario no exception is raised, the first poll
\* enqueues the fallback, and the second poll calls the Organizer for the
\* album with the fallback's remote path, which moves it: the album is
\* counted in moved.
C35_FallbackReachesSuccess ==
    (pc \in {"loop", "done", "raised"} /\ FallbackScenario) =>
        /\ pc # "raised"
        /\ \E j \in 1..Len(enqueue_calls) :
              /\ enqueue_calls[j].album_str = results[1].label
              /\ enqueue_calls[j].username = FirstFallback.username
        /\ Len(history) >= 2 =>
              /\ \E j \in 1..Len(organize_calls) :
                    /\ organize_calls[j].album_str = results[1].label
                    /\ organize_calls[j].remote_dir = FirstFallback.directory
                    /\ organize_calls[j].ok
              /\ moved >= 1
              /\ TargetA \in DOMAIN fs

\* ---- C36 ---------------------------------------------------------------
\* the watch-map keys a poll was told are complete with every file
\* 'Completed, Succeeded', by a watched peer
SucceededKeys(h) ==
    {SlashForm(SlotList[i].directory) :
        i \in {i \in 1..NumSlots :
                 /\ SlotList[i].username \in h.usernames_before
                 /\ h.listing[i] # NotListed /\ h.listing[i] # <<>>
                 /\ AllIn(h.listing[i], {Succeeded})
                 /\ SlashForm(SlotList[i].directory) \in DOMAIN h.dir_map_before}}

\* C36: every Organizer call of a poll is for a directory that is in the
\* watch map and that this poll's report classifies Succeeded; moved never
\* exceeds the number of watched directories classified Succeeded so far;
\* and no directory gets both an Organizer call and a retry enqueue.
C36_OrganizerOnlyForSucceeded ==
    /\ Polled =>
          \A j \in NewOrganizeCalls : organize_calls[j].dir_name \in SucceededKeys(LastPoll)
    /\ moved <= Cardinality(UNION {SucceededKeys(history[k]) : k \in 1..Len(history)})
    /\ \A i \in 1..Len(organize_calls), j \in 1..Len(enqueue_calls) :
          organize_calls[i].dir_name # enqueue_calls[j].for_dir

\* ---- C37 ---------------------------------------------------------------
\* the directories the last poll classified Succeeded, not handled before,
\* for which _organize_album returns false on the tree the poll began with
SucceededNotMovable ==
    {k \in SucceededKeys(LastPoll) \ LastPoll.organized_before :
        ~organize_album(LastPoll.dir_map_before[k][1], LastPoll.dir_map_before[k][2],
                        LastPoll.fs_before, LastPoll.oserr).ok}

\* C37: when a watched directory is classified Succeeded and the Organizer
\* returns false, no exception escapes, the Organizer was called once for
\* the directory, the directory is handled, no retry is enqueued for it, and
\* when the function returns the album is in skipped.
C37_OrganizerFailureIsSkipped ==
    Polled =>
        \A k \in SucceededNotMovable :
            /\ ~LastPoll.raised
            /\ Cardinality({j \in 1..Len(organize_calls) :
                               organize_calls[j].dir_name = k}) = 1
            /\ \A j \in 1..Len(organize_calls) :
                  organize_calls[j].dir_name = k => ~organize_calls[j].ok
            /\ k \in organized
            /\ \A j \in 1..Len(enqueue_calls) : enqueue_calls[j].for_dir # k
            /\ pc = "done" => ret[2] >= 1

\* ---- C38 ---------------------------------------------------------------
\* the albums _cmd_download queued
QueuedLabels == {dl.enq[j].album_str : j \in OkCalls(dl.enq)}

\* the albums whose enqueue the Transfer Service refused
RefusedLabels == {dl.enq[j].album_str : j \in 1..Len(dl.enq)} \ QueuedLabels

\* the last poll was told that the directory every queued album was queued
\* from is complete with every file 'Completed, Succeeded'
QueuedAllSucceeded ==
    \A i \in 1..Len(results) :
        results[i].label \in QueuedLabels =>
            LastPoll.listing[SlotOf(ActiveAlt(results[i].data))] = <<Succeeded>>

\* C38: in the wait _cmd_download starts after some enqueue was refused, a
\* poll that finds every queued album's directory succeeded ends the wait:
\* the function returns from the loop, before the deadline, and does not go
\* on polling for the albums that were never queued.
C38_RefusedAlbumsNotAwaited ==
    (/\ dl.used /\ dl.pc = "waiting" /\ RefusedLabels # {}
     /\ Polled /\ QueuedAllSucceeded)
    => pc = "done" /\ now < deadline

\* ---- C39 ---------------------------------------------------------------
\* C39: parsing the label of an album gives the album back, artist, title
\* and year, and with it the album's target directory.
C39_LabelRoundTrips ==
    (lb.used /\ lb.called) =>
        /\ lb.parsed = <<lb.album>>
        /\ album_target_dir(lb.parsed[1]) = album_target_dir(lb.album)

\* ---- C40 ---------------------------------------------------------------
\* what the Organizer returned for the directory k
OutcomeOf(calls, k) ==
    {calls[j].ok : j \in {j \in 1..Len(calls) : calls[j].dir_name = k}}

\* the run in which the two directories complete in the other order
OtherOrder ==
    DoneBody(DoneBody(pr.start, pr.order[2], FALSE), pr.order[1], FALSE)

\* the downloaded folder of the album watched under k
FolderOf(k) == SourceOfDir[pr.start.dir_map[k][2]]

\* C40: of two watched directories of two albums, organizing the first to
\* complete leaves the other album's downloaded folder as it was, and each
\* album is moved or skipped alike whichever directory completes first.
C40_AlbumsDoNotInterfere ==
    /\ (pr.used /\ Len(pr.order) = 1) =>
          \A k \in DOMAIN pr.start.dir_map \ {pr.order[1]} :
              PathExists(pr.st.fs, FolderOf(k)) = PathExists(pr.start.fs, FolderOf(k))
    /\ (pr.used /\ Len(pr.order) = 2) =>
          \A k \in DOMAIN pr.start.dir_map :
              OutcomeOf(pr.st.org, k) = OutcomeOf(OtherOrder.org, k)
====
